---- MODULE Spec2Model ----
(***************************************************************************)
(* BRIDGE: the per-frame simulation of GameCanvas.tsx (tick and the        *)
(* update* helpers it calls), the pointer and key handlers, and the host   *)
(* state of App.tsx (gameState, inkLeft, reset timers, re-renders).        *)
(*                                                                         *)
(* Numbers.  The program computes in IEEE doubles.  The model computes in  *)
(* fixed point: one pixel is 10 model units (PX), a velocity unit is a     *)
(* tenth of a pixel per tick, ink is counted in tenths.  A product with a  *)
(* decimal factor is an integer product followed by a division that        *)
(* truncates toward zero (Frac).  Math.sqrt / Math.hypot are the floor     *)
(* square root (ISqrt); a comparison of a distance with a threshold is     *)
(* made on the squares, which is exact.  cos(atan2(dy,dx)) is dx/dist and  *)
(* sin(atan2(dy,dx)) is dy/dist.  Simulation time is counted in steps of   *)
(* 0.05 (p.time = 5 means 0.25).                                           *)
(***************************************************************************)
EXTENDS Integers, Sequences, FiniteSets, TLC

VARIABLES
    p,              \* physicsRef.current
    toggleCooldown, \* toggleCooldown.current
    keys,           \* keys.current: the set of key codes that are down
    mouse,          \* mouse.current: [x, y, isDown]
    gameState,      \* App state: "MENU" | "PLAYING" | "LEVEL_COMPLETE"
    levelIdx,       \* App state: index of currentLevel in the level table
    inkLeft,        \* App state
    playerHp,       \* App state (HUD copy of the Guide's hp)
    timers,         \* pending setTimeout callbacks of handleReset (level index each)
    view,           \* the props the mounted animate/tick closure captured
    narrative,      \* App state: the level the stored narrative was written for, 0 for ""
    pending,        \* generateNarrative calls not yet resolved (level index each)
    obs             \* what the last tick did (observation only)

vars == <<p, toggleCooldown, keys, mouse, gameState, levelIdx, inkLeft,
          playerHp, timers, view, narrative, pending, obs>>

----------------------------------------------------------------------------
(* Fixed-point arithmetic *)

PX(n) == 10 * n

Abs(a) == IF a < 0 THEN -a ELSE a

Min(a, b) == IF a < b THEN a ELSE b

Max(a, b) == IF a > b THEN a ELSE b

\* a / b rounded toward zero
TruncDiv(a, b) == IF a >= 0 THEN a \div b ELSE -((-a) \div b)

\* a * (num / den)
Frac(a, num, den) == TruncDiv(a * num, den)

RECURSIVE SqrtSearch(_, _, _)
SqrtSearch(n, lo, hi) ==
    IF lo >= hi THEN lo
    ELSE LET mid == (lo + hi + 1) \div 2
         IN  IF mid * mid <= n THEN SqrtSearch(n, mid, hi)
                               ELSE SqrtSearch(n, lo, mid - 1)

\* Math.sqrt on a non-negative integer: the floor square root
ISqrt(n) == SqrtSearch(n, 0, 46340)

Dist2(dx, dy) == dx * dx + dy * dy

\* Math.hypot(dx, dy) / Math.sqrt(dx*dx + dy*dy)
Hypot(dx, dy) == ISqrt(Dist2(dx, dy))

----------------------------------------------------------------------------
(* Physics constants, GameCanvas.tsx lines 17-27, in model units *)

GRAVITY == PX(1) \div 2

GUIDE_SPEED == PX(22) \div 10

JUMP_FORCE == PX(-11)

TETHER_LENGTH == PX(70)

RECONNECT_DIST == PX(100)

\* FRICTION = 0.75
Friction(v) == Frac(v, 75, 100)

\* COMPANION_DRAG = 0.9
CompanionDrag(v) == Frac(v, 9, 10)

\* WOOD_FRICTION = 0.7, BOMB_FRICTION = 0.99
CrateFriction(type, v) == IF type = "bomb" THEN Frac(v, 99, 100) ELSE Frac(v, 7, 10)

----------------------------------------------------------------------------
(* Collision geometry *)

\* checkRectCollide(rect1 = entity with pos, rect2 = rectangle with x, y)
checkRectCollide(rect1, rect2) ==
    /\ rect1.pos.x < rect2.x + rect2.width
    /\ rect1.pos.x + rect1.width > rect2.x
    /\ rect1.pos.y < rect2.y + rect2.height
    /\ rect1.pos.y + rect1.height > rect2.y

\* resolveCollision(entity, plat), for a platform without a motion descriptor
resolveCollision(entity, plat) ==
    IF plat.type = "gate" /\ plat.isOpen THEN entity
    ELSE
    LET entCenterX == entity.pos.x + entity.width \div 2
        platCenterX == plat.x + plat.width \div 2
        entCenterY == entity.pos.y + entity.height \div 2
        platCenterY == plat.y + plat.height \div 2
        overlapX == (entity.width + plat.width) \div 2 - Abs(entCenterX - platCenterX)
        overlapY == (entity.height + plat.height) \div 2 - Abs(entCenterY - platCenterY)
    IN  IF overlapY < overlapX
        THEN IF entity.vel.y > 0 /\ entity.pos.y < plat.y
             THEN [entity EXCEPT !.pos.y = plat.y - entity.height,
                                 !.vel.y = 0,
                                 !.isGrounded = TRUE]
             ELSE IF entity.vel.y < 0 /\ entity.pos.y > plat.y
             THEN [entity EXCEPT !.pos.y = plat.y + plat.height,
                                 !.vel.y = 0]
             ELSE entity
        ELSE IF entCenterX > platCenterX
             THEN [entity EXCEPT !.pos.x = plat.x + plat.width, !.vel.x = 0]
             ELSE [entity EXCEPT !.pos.x = plat.x - entity.width, !.vel.x = 0]

\* checkBridgeCollide(entity, bridge): <<>> for false, else <<[y, dy, len]>>
\* (y: the line's height under the feet; sin(angle) = dy / len)
checkBridgeCollide(entity, bridge) ==
    IF entity.vel.y < 0 THEN <<>>
    ELSE
    LET feetX == entity.pos.x + entity.width \div 2
        feetY == entity.pos.y + entity.height
        minX == Min(bridge.p1.x, bridge.p2.x)
        maxX == Max(bridge.p1.x, bridge.p2.x)
        dx == bridge.p2.x - bridge.p1.x
        dy == bridge.p2.y - bridge.p1.y
        lineY == bridge.p1.y + TruncDiv(dy * (feetX - bridge.p1.x), dx)
    IN  IF feetX >= minX - PX(5) /\ feetX <= maxX + PX(5)
        THEN IF dx = 0 THEN <<>>
             ELSE IF feetY >= lineY - PX(8) /\ feetY <= lineY + PX(15)
                  THEN <<[y |-> lineY, dy |-> dy, len |-> Hypot(dx, dy)]>>
                  ELSE <<>>
        ELSE <<>>

\* a physics step that leaves the grounded flag as it was
updateEntityPhysicsKeepGrounded(entity) ==
    LET vy == entity.vel.y + GRAVITY
    IN  [entity EXCEPT !.vel.y = vy,
                       !.pos.x = entity.pos.x + entity.vel.x,
                       !.pos.y = entity.pos.y + vy]

\* updateEntityPhysics(entity)
updateEntityPhysics(entity) ==
    LET vy == entity.vel.y + GRAVITY
    IN  [entity EXCEPT !.vel.y = vy,
                       !.pos.x = entity.pos.x + entity.vel.x,
                       !.pos.y = entity.pos.y + vy,
                       !.isGrounded = FALSE]

----------------------------------------------------------------------------
(* Signals a tick sends to the host, in the order it sends them *)

SigGameOver == [kind |-> "gameOver", n |-> 0]

SigComplete(bridges) == [kind |-> "complete", n |-> bridges]

SigSetInk(v) == [kind |-> "setInk", n |-> v]

SigSetHp(v) == [kind |-> "setHp", n |-> v]

\* a damage path that uses the hp system on every level
takeDamageEveryLevel(ent, level) ==
    IF ent.invulnerableTimer > 0 THEN [e |-> ent, sig |-> <<>>]
    ELSE [e |-> [ent EXCEPT !.hp = ent.hp - 1, !.invulnerableTimer = 60],
          sig |-> <<SigSetHp(ent.hp - 1)>> \o
                  (IF ent.hp - 1 <= 0 THEN <<SigGameOver>> ELSE <<>>)]

\* takeDamage(ent) on a level: [e |-> the entity after, sig |-> signals sent]
\* (ent is always the Guide: no caller passes the Companion)
takeDamage(ent, level) ==
    IF ent.invulnerableTimer > 0 THEN [e |-> ent, sig |-> <<>>]
    ELSE IF level.boss # <<>> \/ level.playerMaxHp # 0
    THEN LET hp == ent.hp - 1
         IN  [e |-> [ent EXCEPT !.hp = hp, !.invulnerableTimer = 60],
              sig |-> <<SigSetHp(hp)>> \o
                      (IF hp <= 0 THEN <<SigGameOver>> ELSE <<>>)]
    ELSE [e |-> ent, sig |-> <<SigGameOver>>]

isBomb(entity) == "type" \in DOMAIN entity /\ entity.type = "bomb"

RECURSIVE PlatformLoop(_, _, _, _)
\* the loop at lines 259-271: [e, hazard]; hazard = TRUE is the early return
PlatformLoop(entity, platforms, i, isPlayer) ==
    IF i > Len(platforms) THEN [e |-> entity, hazard |-> FALSE]
    ELSE LET plat == platforms[i]
         IN  IF checkRectCollide(entity, plat)
             THEN IF plat.type = "hazard" /\ isPlayer
                  THEN [e |-> entity, hazard |-> TRUE]
                  ELSE IF plat.type \in {"ground", "goal", "gate"}
                       THEN PlatformLoop(resolveCollision(entity, plat), platforms, i + 1, isPlayer)
                       ELSE PlatformLoop(entity, platforms, i + 1, isPlayer)
             ELSE PlatformLoop(entity, platforms, i + 1, isPlayer)

RECURSIVE BridgeLoop(_, _, _)
\* the loop at lines 274-293
BridgeLoop(entity, bridges, i) ==
    IF i > Len(bridges) THEN entity
    ELSE LET collision == checkBridgeCollide(entity, bridges[i])
         IN  IF collision = <<>> THEN BridgeLoop(entity, bridges, i + 1)
             ELSE LET c == collision[1]
                      rested == [entity EXCEPT !.pos.y = c.y - entity.height,
                                               !.vel.y = 0,
                                               !.isGrounded = TRUE]
                      slide == TruncDiv(c.dy * (GRAVITY * 2), c.len)
                      vx == IF isBomb(entity)
                            THEN Frac(entity.vel.x + slide, 98, 100)
                            ELSE Frac(entity.vel.x, 9, 10)
                  IN  BridgeLoop([rested EXCEPT !.vel.x = vx], bridges, i + 1)

\* lines 254-256
TickInvulnerable(entity, isPlayer) ==
    IF isPlayer /\ entity.invulnerableTimer > 0
    THEN [entity EXCEPT !.invulnerableTimer = entity.invulnerableTimer - 1]
    ELSE entity

\* lines 296-299
FloorKill(entity, isPlayer) ==
    [e |-> entity,
     sig |-> IF entity.pos.y > PX(2000) /\ isPlayer THEN <<SigGameOver>> ELSE <<>>]

\* lines 261-266 and 273-299, after the platform loop returned r
AfterPlatforms(r, bridges, isPlayer) ==
    IF r.hazard THEN [e |-> r.e, sig |-> <<SigGameOver>>]
    ELSE FloorKill(BridgeLoop(r.e, bridges, 1), isPlayer)

\* updateEntityCollisions(entity, isPlayer): [e, sig]
updateEntityCollisions(entity, isPlayer, platforms, bridges) ==
    AfterPlatforms(PlatformLoop(TickInvulnerable(entity, isPlayer), platforms, 1, isPlayer),
                   bridges, isPlayer)

----------------------------------------------------------------------------
(* Trigonometry in thousandths: angles in milliradians, values times 1000 *)

\* sin on [0, pi], Bhaskara's rational approximation, pi = 3142 mrad
SinHalfTurn(t) ==
    LET q == t * (3142 - t)
    IN  (16 * q) \div ((5 * 3142 * 3142 - 4 * q) \div 1000)

\* Math.sin(x) * 1000 for x >= 0 in milliradians
SinMilli(x) ==
    LET r == x % 6284
    IN  IF r <= 3142 THEN SinHalfTurn(r) ELSE -SinHalfTurn(r - 3142)

\* Math.cos(x) * 1000 for x >= 0 in milliradians
CosMilli(x) == SinMilli(x + 1571)

----------------------------------------------------------------------------
(* A tick threads a context c = [p, sig, dmg] through its steps: p is the    *)
(* simulation context, sig the signals sent to the host so far, dmg one      *)
(* record per takeDamage call (the timer and hp it found, the hp and timer   *)
(* it left, the signals it sent).                                            *)

\* takeDamage(p.guide) inside a tick
DamageGuide(c, level) ==
    LET r == takeDamage(c.p.guide, level)
    IN  [c EXCEPT !.p.guide = r.e,
                  !.sig = c.sig \o r.sig,
                  !.dmg = Append(c.dmg, [timer |-> c.p.guide.invulnerableTimer,
                                         hpBefore |-> c.p.guide.hp,
                                         hpAfter |-> r.e.hp,
                                         timerAfter |-> r.e.invulnerableTimer,
                                         sig |-> r.sig])]

\* a patrol step that turns at the far end only
MonsterStepOneWay(m) ==
    [m EXCEPT !.pos.x = m.pos.x + m.vel.x,
              !.vel.x = IF m.pos.x + m.vel.x > m.patrolEnd THEN -m.vel.x ELSE m.vel.x]

\* a patrol step that looks at the bounds before it moves
MonsterStepTurnsLate(m) ==
    [m EXCEPT !.pos.x = m.pos.x + m.vel.x,
              !.vel.x = IF m.pos.x > m.patrolEnd \/ m.pos.x < m.patrolStart
                        THEN -m.vel.x ELSE m.vel.x]

\* one monster's patrol step (lines 317-320)
MonsterStep(m) ==
    LET x == m.pos.x + m.vel.x
    IN  [m EXCEPT !.pos.x = x,
                  !.vel.x = IF x > m.patrolEnd \/ x < m.patrolStart
                            THEN -m.vel.x ELSE m.vel.x]

RECURSIVE updateMonstersFrom(_, _, _)
updateMonstersFrom(c, i, level) ==
    IF i > Len(c.p.monsters) THEN c
    ELSE LET m == MonsterStep(c.p.monsters[i])
             c1 == [c EXCEPT !.p.monsters[i] = m]
             hit == checkRectCollide(c1.p.guide,
                        [x |-> m.pos.x, y |-> m.pos.y, width |-> m.width, height |-> m.height])
         IN  updateMonstersFrom(IF hit THEN DamageGuide(c1, level) ELSE c1, i + 1, level)

\* updateMonsters()
updateMonsters(c, level) == updateMonstersFrom(c, 1, level)

\* checkPress(ent) of updateButtons
checkPress(ent, btn) ==
    /\ ent.pos.x < btn.x + btn.width
    /\ ent.pos.x + ent.width > btn.x
    /\ ent.pos.y + ent.height >= btn.y
    /\ ent.pos.y + ent.height <= btn.y + btn.height

\* p.platforms.find(plat => plat.gateId === id): the index, 0 when none
FindGate(platforms, id) ==
    LET hits == {k \in 1..Len(platforms) : platforms[k].gateId = id}
    IN  IF hits = {} THEN 0 ELSE CHOOSE k \in hits : \A j \in hits : k <= j

\* lines 424-429: what one button writes to its gate
TriggerGate(platforms, btn, pressed) ==
    IF btn.triggerGateId # 0
    THEN LET g == FindGate(platforms, btn.triggerGateId)
         IN  IF g # 0 THEN [platforms EXCEPT ![g].isOpen = pressed] ELSE platforms
    ELSE platforms

RECURSIVE updateButtonsFrom(_, _)
updateButtonsFrom(q, i) ==
    IF i > Len(q.buttons) THEN q
    ELSE LET btn == q.buttons[i]
             pressed == \/ checkPress(q.guide, btn)
                        \/ checkPress(q.companion, btn)
                        \/ \E k \in 1..Len(q.crates) : checkPress(q.crates[k], btn)
         IN  updateButtonsFrom([q EXCEPT !.buttons[i].isPressed = pressed,
                                         !.platforms = TriggerGate(q.platforms, btn, pressed)],
                               i + 1)

\* updateButtons()
updateButtons(q) == updateButtonsFrom(q, 1)

\* p.buttons.find(b => b.triggerSpawnerId === id): the index, 0 when none
FindSpawnerButton(buttons, id) ==
    LET hits == {k \in 1..Len(buttons) : buttons[k].triggerSpawnerId = id}
    IN  IF hits = {} THEN 0 ELSE CHOOSE k \in hits : \A j \in hits : k <= j

NewBomb(spawner) ==
    [id |-> 0, type |-> "bomb", pos |-> [x |-> spawner.x, y |-> spawner.y],
     vel |-> [x |-> 0, y |-> 0], width |-> PX(40), height |-> PX(40), isGrounded |-> FALSE]

\* a spawner that does not look for a bomb nearby
SpawnerStepNoLimit(spawner, buttons, crates) ==
    LET cd == IF spawner.cooldown > 0 THEN spawner.cooldown - 1 ELSE spawner.cooldown
        b == FindSpawnerButton(buttons, spawner.id)
        existingBomb == \E k \in 1..Len(crates) :
                            /\ crates[k].type = "bomb"
                            /\ Dist2(crates[k].pos.x - spawner.x, crates[k].pos.y - spawner.y)
                                   < PX(1000) * PX(1000)
    IN  IF (b = 0 \/ buttons[b].isPressed) /\ cd <= 0
        THEN [spawner |-> [spawner EXCEPT !.cooldown = 200],
              crates |-> Append(crates, NewBomb(spawner))]
        ELSE [spawner |-> [spawner EXCEPT !.cooldown = cd], crates |-> crates]

\* one spawner of updateSpawners (lines 436-461): [spawner, crates]
SpawnerStep(spawner, buttons, crates) ==
    LET cd == IF spawner.cooldown > 0 THEN spawner.cooldown - 1 ELSE spawner.cooldown
        b == FindSpawnerButton(buttons, spawner.id)
        existingBomb == \E k \in 1..Len(crates) :
                            /\ crates[k].type = "bomb"
                            /\ Dist2(crates[k].pos.x - spawner.x, crates[k].pos.y - spawner.y)
                                   < PX(1000) * PX(1000)
    IN  IF (b = 0 \/ buttons[b].isPressed) /\ cd <= 0 /\ ~existingBomb
        THEN [spawner |-> [spawner EXCEPT !.cooldown = 200],
              crates |-> Append(crates, NewBomb(spawner))]
        ELSE [spawner |-> [spawner EXCEPT !.cooldown = cd], crates |-> crates]

RECURSIVE updateSpawnersFrom(_, _)
updateSpawnersFrom(q, i) ==
    IF i > Len(q.spawners) THEN q
    ELSE LET r == SpawnerStep(q.spawners[i], q.buttons, q.crates)
         IN  updateSpawnersFrom([q EXCEPT !.spawners[i] = r.spawner, !.crates = r.crates], i + 1)

\* updateSpawners()
updateSpawners(q) == updateSpawnersFrom(q, 1)

----------------------------------------------------------------------------
(* Boss *)

Shot(x, y, vx, vy, radius) ==
    [x |-> x, y |-> y, vx |-> vx, vy |-> vy, radius |-> radius, life |-> 300]

\* lines 515-525: one projectile aimed at the Guide's centre, speed 5
AimedShot(centerX, centerY, guide) ==
    LET dx == (guide.pos.x + guide.width \div 2) - centerX
        dy == (guide.pos.y + guide.height \div 2) - centerY
        dist == Hypot(dx, dy)
    IN  IF dist = 0 THEN Shot(centerX, centerY, PX(5), 0, PX(8))
        ELSE Shot(centerX, centerY, TruncDiv(PX(5) * dx, dist), TruncDiv(PX(5) * dy, dist), PX(8))

\* lines 545-554: 8 projectiles, angle (2 pi / 8) i + p.time, speed 4
RadialBurst(centerX, centerY, time) ==
    [i \in 1..8 |->
        LET angle == 785 * (i - 1) + 50 * time
        IN  Shot(centerX, centerY, TruncDiv(PX(4) * CosMilli(angle), 1000),
                 TruncDiv(PX(4) * SinMilli(angle), 1000), PX(8))]

\* lines 557-565: 5 projectiles above the Guide; rain[i] holds the two
\* Math.random() results of the i-th, as offsets dx in [-200,200), dy in [0,200)
Rain(guide, rain) ==
    [i \in 1..5 |-> Shot(guide.pos.x + PX(rain[i].dx), PX(-50) - PX(rain[i].dy), 0, PX(5), PX(10))]

\* a state machine whose phase-1 burst has six shots
BossStateMachineLongBurst(boss, guide, time, rnd) ==
    LET timer == boss.attackTimer - 1
        centerX == boss.x + boss.width \div 2
        centerY == boss.y + boss.height \div 2
    IN  IF boss.state = "cooldown"
        THEN IF timer <= 0
             THEN [boss |-> [boss EXCEPT !.state = "attack", !.shotCount = 0, !.attackTimer = 0],
                   shots |-> <<>>]
             ELSE [boss |-> [boss EXCEPT !.attackTimer = timer], shots |-> <<>>]
        ELSE IF boss.state = "attack"
        THEN IF timer <= 0
             THEN IF boss.phase = 1
                  THEN LET n == boss.shotCount + 1
                       IN  [boss |-> IF n >= 6
                                     THEN [boss EXCEPT !.shotCount = n, !.state = "cooldown",
                                                       !.attackTimer = 180]
                                     ELSE [boss EXCEPT !.shotCount = n, !.attackTimer = 60],
                            shots |-> <<AimedShot(centerX, centerY, guide)>>]
                  ELSE [boss |-> [boss EXCEPT !.state = "cooldown", !.attackTimer = 180],
                        shots |-> IF rnd.radial
                                  THEN RadialBurst(centerX, centerY, time)
                                  ELSE Rain(guide, rnd.rain)]
             ELSE [boss |-> [boss EXCEPT !.attackTimer = timer], shots |-> <<>>]
        ELSE [boss |-> boss, shots |-> <<>>]

\* a state machine that stays in attack after a phase-2 volley
BossStateMachineNoRest(boss, guide, time, rnd) ==
    LET timer == boss.attackTimer - 1
        centerX == boss.x + boss.width \div 2
        centerY == boss.y + boss.height \div 2
    IN  IF boss.state = "cooldown"
        THEN IF timer <= 0
             THEN [boss |-> [boss EXCEPT !.state = "attack", !.shotCount = 0, !.attackTimer = 0],
                   shots |-> <<>>]
             ELSE [boss |-> [boss EXCEPT !.attackTimer = timer], shots |-> <<>>]
        ELSE IF boss.state = "attack"
        THEN IF timer <= 0
             THEN IF boss.phase = 1
                  THEN LET n == boss.shotCount + 1
                       IN  [boss |-> IF n >= 5
                                     THEN [boss EXCEPT !.shotCount = n, !.state = "cooldown",
                                                       !.attackTimer = 180]
                                     ELSE [boss EXCEPT !.shotCount = n, !.attackTimer = 60],
                            shots |-> <<AimedShot(centerX, centerY, guide)>>]
                  ELSE [boss |-> [boss EXCEPT !.attackTimer = 60],
                        shots |-> IF rnd.radial
                                  THEN RadialBurst(centerX, centerY, time)
                                  ELSE Rain(guide, rnd.rain)]
             ELSE [boss |-> [boss EXCEPT !.attackTimer = timer], shots |-> <<>>]
        ELSE [boss |-> boss, shots |-> <<>>]

\* the state machine, lines 494-573: [boss, shots]
BossStateMachine(boss, guide, time, rnd) ==
    LET timer == boss.attackTimer - 1
        centerX == boss.x + boss.width \div 2
        centerY == boss.y + boss.height \div 2
    IN  IF boss.state = "cooldown"
        THEN IF timer <= 0
             THEN [boss |-> [boss EXCEPT !.state = "attack", !.shotCount = 0, !.attackTimer = 0],
                   shots |-> <<>>]
             ELSE [boss |-> [boss EXCEPT !.attackTimer = timer], shots |-> <<>>]
        ELSE IF boss.state = "attack"
        THEN IF timer <= 0
             THEN IF boss.phase = 1
                  THEN LET n == boss.shotCount + 1
                       IN  [boss |-> IF n >= 5
                                     THEN [boss EXCEPT !.shotCount = n, !.state = "cooldown",
                                                       !.attackTimer = 180]
                                     ELSE [boss EXCEPT !.shotCount = n, !.attackTimer = 60],
                            shots |-> <<AimedShot(centerX, centerY, guide)>>]
                  ELSE [boss |-> [boss EXCEPT !.state = "cooldown", !.attackTimer = 180],
                        shots |-> IF rnd.radial
                                  THEN RadialBurst(centerX, centerY, time)
                                  ELSE Rain(guide, rnd.rain)]
             ELSE [boss |-> [boss EXCEPT !.attackTimer = timer], shots |-> <<>>]
        ELSE [boss |-> boss, shots |-> <<>>]

\* line 583: the bomb's centre is closer to the boss's centre than the two half widths
BombTouchesBoss(c, boss) ==
    /\ c.type = "bomb"
    /\ LET dx == (c.pos.x + c.width \div 2) - (boss.x + boss.width \div 2)
           dy == (c.pos.y + c.height \div 2) - (boss.y + boss.height \div 2)
           reach == boss.width \div 2 + c.width \div 2
       IN  Dist2(dx, dy) < reach * reach

\* a hit that opens no invulnerability window
BossHitNoWindow(boss) ==
    IF boss.invulnerableTimer <= 0
    THEN [boss EXCEPT !.hp = boss.hp - 1]
    ELSE boss

\* a hit whose invulnerability window is one tick short
BossHitShortWindow(boss) ==
    IF boss.invulnerableTimer <= 0
    THEN [boss EXCEPT !.hp = boss.hp - 1, !.invulnerableTimer = 59]
    ELSE boss

\* lines 585-589: what a touching bomb does to the boss
BossHit(boss) ==
    IF boss.invulnerableTimer <= 0
    THEN [boss EXCEPT !.hp = boss.hp - 1, !.invulnerableTimer = 60]
    ELSE boss

\* splice(i, 1)
RemoveAt(seq, i) == SubSeq(seq, 1, i - 1) \o SubSeq(seq, i + 1, Len(seq))

RECURSIVE BombLoopSpares(_, _, _)
\* a bomb loop that leaves a bomb in place while the boss is invulnerable
BombLoopSpares(r, i, hits) ==
    IF i < 1 THEN [boss |-> r.boss, crates |-> r.crates, hits |-> hits]
    ELSE IF BombTouchesBoss(r.crates[i], r.boss) /\ r.boss.invulnerableTimer <= 0
         THEN BombLoopSpares([boss |-> BossHit(r.boss),
                              crates |-> RemoveAt(r.crates, i)],
                             i - 1, hits + 1)
         ELSE BombLoopSpares(r, i - 1, hits)

RECURSIVE BombLoop(_, _, _)
\* lines 576-594, from the last crate to the first: [boss, crates, hits]
BombLoop(r, i, hits) ==
    IF i < 1 THEN [boss |-> r.boss, crates |-> r.crates, hits |-> hits]
    ELSE IF BombTouchesBoss(r.crates[i], r.boss)
         THEN BombLoop([boss |-> BossHit(r.boss),
                        crates |-> RemoveAt(r.crates, i)],
                       i - 1, hits + 1)
         ELSE BombLoop(r, i - 1, hits)

\* a phase check with the threshold one too high
BossPhaseEarly(boss) ==
    IF boss.phase = 1 /\ boss.hp <= 4
    THEN [boss EXCEPT !.phase = 2, !.state = "cooldown", !.attackTimer = 180]
    ELSE boss

\* a phase check that waits for hp 0
BossPhaseAtZero(boss) ==
    IF boss.phase = 1 /\ boss.hp <= 0
    THEN [boss EXCEPT !.phase = 2, !.state = "cooldown", !.attackTimer = 180]
    ELSE boss

\* lines 482-488
BossPhase(boss) ==
    IF boss.phase = 1 /\ boss.hp <= 3
    THEN [boss EXCEPT !.phase = 2, !.state = "cooldown", !.attackTimer = 180]
    ELSE boss

\* line 491: boss.y += Math.sin(p.time * 0.1) * 0.5
BossFloat(boss, time) ==
    [boss EXCEPT !.y = boss.y + TruncDiv(PX(1) * SinMilli(5 * time), 2000)]

\* lines 471: the invulnerability countdown
BossCountdown(boss) ==
    IF boss.invulnerableTimer > 0
    THEN [boss EXCEPT !.invulnerableTimer = boss.invulnerableTimer - 1]
    ELSE boss

\* how many crates of the list are bombs within reach of the boss
BombsNear(crates, boss) ==
    Cardinality({i \in 1..Len(crates) : BombTouchesBoss(crates[i], boss)})

\* what the bomb loop is about to see is noted
NoteBombs(c, boss) ==
    [c EXCEPT !.bossStep = TRUE,
              !.bossNear = BombsNear(c.p.crates, boss),
              !.bossTimer = boss.invulnerableTimer]

WithBombs(c, shots, hit) ==
    [c EXCEPT !.p.boss = <<hit.boss>>,
              !.p.projectiles = c.p.projectiles \o shots,
              !.p.crates = hit.crates,
              !.bossHits = hit.hits,
              !.bossLeft = BombsNear(hit.crates, hit.boss),
              !.bossShots = Len(shots),
              !.fired = shots]

WithShots(c, sm) ==
    WithBombs(NoteBombs(c, sm.boss), sm.shots,
              BombLoop([boss |-> sm.boss, crates |-> c.p.crates], Len(c.p.crates), 0))

\* lines 470-594 for a boss b whose countdown has been done
BossAlive(c, b, gameStateProp, rnd) ==
    IF b.hp <= 0 /\ gameStateProp = "PLAYING"
    THEN [c EXCEPT !.p.boss = <<>>,
                   !.sig = c.sig \o <<SigComplete(c.p.bridgeCount)>>,
                   !.bossDied = TRUE]
    ELSE WithShots(c, BossStateMachine(BossFloat(BossPhase(b), c.p.time), c.p.guide, c.p.time, rnd))

\* updateBoss()
updateBoss(c, gameStateProp, rnd) ==
    IF c.p.boss = <<>> THEN c
    ELSE BossAlive(c, BossCountdown(c.p.boss[1]), gameStateProp, rnd)

----------------------------------------------------------------------------
(* Projectiles *)

\* checkHit(p.guide) of updateProjectiles
checkHit(ent, proj) ==
    LET dx == (ent.pos.x + ent.width \div 2) - proj.x
        dy == (ent.pos.y + ent.height \div 2) - proj.y
        reach == proj.radius + ent.width \div 2
    IN  Dist2(dx, dy) < reach * reach


\* the projectile as the loop moves it (lines 601-603)
MovedShot(old) == [old EXCEPT !.x = old.x + old.vx, !.y = old.y + old.vy, !.life = old.life - 1]

RECURSIVE updateProjectilesHitBoth(_, _, _)
\* a projectile loop in which the Companion stops a projectile as the Guide does
updateProjectilesHitBoth(c, i, level) ==
    IF i < 1 THEN c
    ELSE IF MovedShot(c.p.projectiles[i]).life <= 0
         THEN updateProjectilesHitBoth(
                  [c EXCEPT !.p.projectiles = RemoveAt(c.p.projectiles, i)], i - 1, level)
         ELSE IF checkHit(c.p.guide, MovedShot(c.p.projectiles[i]))
         THEN updateProjectilesHitBoth(
                  [DamageGuide(c, level) EXCEPT !.p.projectiles = RemoveAt(c.p.projectiles, i)],
                  i - 1, level)
         ELSE IF checkHit(c.p.companion, MovedShot(c.p.projectiles[i]))
         THEN updateProjectilesHitBoth(
                  [c EXCEPT !.p.projectiles = RemoveAt(c.p.projectiles, i)], i - 1, level)
         ELSE updateProjectilesHitBoth(
                  [c EXCEPT !.p.projectiles[i] = MovedShot(c.p.projectiles[i])], i - 1, level)

RECURSIVE updateProjectilesPassThrough(_, _, _)
\* a projectile loop in which an invulnerable Guide lets the projectile through
updateProjectilesPassThrough(c, i, level) ==
    IF i < 1 THEN c
    ELSE IF MovedShot(c.p.projectiles[i]).life <= 0
         THEN updateProjectilesPassThrough(
                  [c EXCEPT !.p.projectiles = RemoveAt(c.p.projectiles, i)], i - 1, level)
         ELSE IF checkHit(c.p.guide, MovedShot(c.p.projectiles[i]))
                 /\ c.p.guide.invulnerableTimer <= 0
         THEN updateProjectilesPassThrough(
                  [DamageGuide(c, level) EXCEPT !.p.projectiles = RemoveAt(c.p.projectiles, i)],
                  i - 1, level)
         ELSE updateProjectilesPassThrough(
                  [c EXCEPT !.p.projectiles[i] = MovedShot(c.p.projectiles[i])], i - 1, level)

RECURSIVE updateProjectilesFrom(_, _, _)
\* lines 599-624, from the last projectile to the first
updateProjectilesFrom(c, i, level) ==
    IF i < 1 THEN c
    ELSE LET old == c.p.projectiles[i]
             proj == MovedShot(old)
         IN  IF proj.life <= 0
             THEN updateProjectilesFrom(
                      [c EXCEPT !.p.projectiles = RemoveAt(c.p.projectiles, i)], i - 1, level)
             ELSE IF checkHit(c.p.guide, proj)
             THEN updateProjectilesFrom(
                      [DamageGuide(c, level) EXCEPT !.p.projectiles = RemoveAt(c.p.projectiles, i)],
                      i - 1, level)
             ELSE updateProjectilesFrom([c EXCEPT !.p.projectiles[i] = proj], i - 1, level)

\* updateProjectiles()
updateProjectiles(c, level) == updateProjectilesFrom(c, Len(c.p.projectiles), level)

----------------------------------------------------------------------------
(* Crates *)

\* a push that no gate stops, closed or open
resolveCratePushThroughGates(pusher, crate, platforms) ==
    LET dx == (pusher.pos.x + pusher.width \div 2) - (crate.pos.x + crate.width \div 2)
        dy == (pusher.pos.y + pusher.height \div 2) - (crate.pos.y + crate.height \div 2)
        combinedHalfWidth == pusher.width \div 2 + crate.width \div 2
        combinedHalfHeight == pusher.height \div 2 + crate.height \div 2
        overlapX == combinedHalfWidth - Abs(dx)
        overlapY == combinedHalfHeight - Abs(dy)
        pushDir == IF dx > 0 THEN -1 ELSE 1
        moveAmount == overlapX * pushDir
        moved == [crate EXCEPT !.pos.x = crate.pos.x + moveAmount]
        hitWall == \E k \in 1..Len(platforms) :
                       /\ platforms[k].type # "hazard"
                       /\ checkRectCollide(moved, platforms[k])
                       /\ platforms[k].type # "gate"
    IN  IF Abs(dx) < combinedHalfWidth /\ Abs(dy) < combinedHalfHeight
        THEN IF overlapX < overlapY /\ overlapY > PX(5)
             THEN IF hitWall
                  THEN [pusher |-> [pusher EXCEPT !.pos.x = pusher.pos.x - moveAmount, !.vel.x = 0],
                        crate |-> [crate EXCEPT !.vel.x = 0]]
                  ELSE [pusher |-> pusher,
                        crate |-> [moved EXCEPT !.vel.x = Frac(pusher.vel.x, 9, 10)]]
             ELSE IF overlapY < overlapX /\ pusher.vel.y > 0 /\ pusher.pos.y < crate.pos.y
                  THEN [pusher |-> [pusher EXCEPT !.pos.y = crate.pos.y - pusher.height,
                                                  !.vel.y = 0,
                                                  !.isGrounded = TRUE],
                        crate |-> crate]
                  ELSE [pusher |-> pusher, crate |-> crate]
        ELSE [pusher |-> pusher, crate |-> crate]

\* resolveCratePush(pusher, crate): [pusher, crate]
resolveCratePush(pusher, crate, platforms) ==
    LET dx == (pusher.pos.x + pusher.width \div 2) - (crate.pos.x + crate.width \div 2)
        dy == (pusher.pos.y + pusher.height \div 2) - (crate.pos.y + crate.height \div 2)
        combinedHalfWidth == pusher.width \div 2 + crate.width \div 2
        combinedHalfHeight == pusher.height \div 2 + crate.height \div 2
        overlapX == combinedHalfWidth - Abs(dx)
        overlapY == combinedHalfHeight - Abs(dy)
        pushDir == IF dx > 0 THEN -1 ELSE 1
        moveAmount == overlapX * pushDir
        moved == [crate EXCEPT !.pos.x = crate.pos.x + moveAmount]
        hitWall == \E k \in 1..Len(platforms) :
                       /\ platforms[k].type # "hazard"
                       /\ checkRectCollide(moved, platforms[k])
                       /\ ~(platforms[k].type = "gate" /\ platforms[k].isOpen)
    IN  IF Abs(dx) < combinedHalfWidth /\ Abs(dy) < combinedHalfHeight
        THEN IF overlapX < overlapY /\ overlapY > PX(5)
             THEN IF hitWall
                  THEN [pusher |-> [pusher EXCEPT !.pos.x = pusher.pos.x - moveAmount, !.vel.x = 0],
                        crate |-> [crate EXCEPT !.vel.x = 0]]
                  ELSE [pusher |-> pusher,
                        crate |-> [moved EXCEPT !.vel.x = Frac(pusher.vel.x, 9, 10)]]
             ELSE IF overlapY < overlapX /\ pusher.vel.y > 0 /\ pusher.pos.y < crate.pos.y
                  THEN [pusher |-> [pusher EXCEPT !.pos.y = crate.pos.y - pusher.height,
                                                  !.vel.y = 0,
                                                  !.isGrounded = TRUE],
                        crate |-> crate]
                  ELSE [pusher |-> pusher, crate |-> crate]
        ELSE [pusher |-> pusher, crate |-> crate]

\* the first forEach of updateCrates (lines 382-388), one crate
CrateStep(crate, platforms, bridges) ==
    LET e == updateEntityCollisions(updateEntityPhysics(crate), FALSE, platforms, bridges).e
    IN  [e EXCEPT !.vel.x = CrateFriction(e.type, e.vel.x)]

RECURSIVE PushLoop(_, _)
\* the second forEach of updateCrates (lines 391-394)
PushLoop(q, i) ==
    IF i > Len(q.crates) THEN q
    ELSE LET r1 == resolveCratePush(q.guide, q.crates[i], q.platforms)
             r2 == resolveCratePush(q.companion, r1.crate, q.platforms)
         IN  PushLoop([q EXCEPT !.guide = r1.pusher, !.companion = r2.pusher,
                                !.crates[i] = r2.crate], i + 1)

\* the context after the first forEach of updateCrates
MovedCrates(q) ==
    [q EXCEPT !.crates = [k \in 1..Len(q.crates) |->
                             CrateStep(q.crates[k], q.platforms, q.bridges)]]

\* updateCrates()
updateCrates(q) == PushLoop(MovedCrates(q), 1)

RECURSIVE PushCalls(_, _)
\* the calls of resolveCratePush the second forEach makes, in order: what each was
\* given and what it left
PushCalls(q, i) ==
    IF i > Len(q.crates) THEN <<>>
    ELSE LET r1 == resolveCratePush(q.guide, q.crates[i], q.platforms)
             r2 == resolveCratePush(q.companion, r1.crate, q.platforms)
         IN  <<[pusher |-> q.guide, crate |-> q.crates[i], out |-> r1],
               [pusher |-> q.companion, crate |-> r1.crate, out |-> r2]>>
             \o PushCalls([q EXCEPT !.guide = r1.pusher, !.companion = r2.pusher,
                                    !.crates[i] = r2.crate], i + 1)

----------------------------------------------------------------------------
(* The steps of tick() that are written inline *)

GuideCompanionDist2(q) ==
    Dist2(q.guide.pos.x - q.companion.pos.x, q.guide.pos.y - q.companion.pos.y)

\* a toggle that reconnects at any distance
ToggleTetherAnyDistance(q, cooldown, keysDown) ==
    IF "KeyE" \in keysDown
    THEN IF ~cooldown
         THEN [isTethered |-> ~q.isTethered, toggleCooldown |-> TRUE]
         ELSE [isTethered |-> q.isTethered, toggleCooldown |-> cooldown]
    ELSE [isTethered |-> q.isTethered, toggleCooldown |-> FALSE]

\* a toggle that acts on every frame the key is down
ToggleTetherEveryFrame(q, cooldown, keysDown) ==
    IF "KeyE" \in keysDown
    THEN [isTethered |-> IF q.isTethered THEN FALSE
                         ELSE GuideCompanionDist2(q) < RECONNECT_DIST * RECONNECT_DIST,
          toggleCooldown |-> TRUE]
    ELSE [isTethered |-> q.isTethered, toggleCooldown |-> FALSE]

\* a toggle that a refused reconnect does not use up
ToggleTetherFreeRetry(q, cooldown, keysDown) ==
    IF "KeyE" \in keysDown
    THEN IF ~cooldown
         THEN [isTethered |-> IF q.isTethered THEN FALSE
                              ELSE GuideCompanionDist2(q) < RECONNECT_DIST * RECONNECT_DIST,
               toggleCooldown |-> q.isTethered
                                     \/ GuideCompanionDist2(q) < RECONNECT_DIST * RECONNECT_DIST]
         ELSE [isTethered |-> q.isTethered, toggleCooldown |-> cooldown]
    ELSE [isTethered |-> q.isTethered, toggleCooldown |-> FALSE]

\* lines 634-654: [isTethered, toggleCooldown] after the toggle step
ToggleTether(q, cooldown, keysDown) ==
    IF "KeyE" \in keysDown
    THEN IF ~cooldown
         THEN [isTethered |-> IF q.isTethered THEN FALSE
                              ELSE GuideCompanionDist2(q) < RECONNECT_DIST * RECONNECT_DIST,
               toggleCooldown |-> TRUE]
         ELSE [isTethered |-> q.isTethered, toggleCooldown |-> cooldown]
    ELSE [isTethered |-> q.isTethered, toggleCooldown |-> FALSE]

\* lines 665-676: the Guide after the input step
GuideInput(guide, keysDown) ==
    LET vx == IF keysDown \cap {"KeyA", "ArrowLeft"} # {} THEN -GUIDE_SPEED
              ELSE IF keysDown \cap {"KeyD", "ArrowRight"} # {} THEN GUIDE_SPEED
              ELSE Friction(guide.vel.x)
        jump == keysDown \cap {"Space", "ArrowUp", "KeyW"} # {} /\ guide.isGrounded
    IN  [guide EXCEPT !.vel.x = vx, !.vel.y = IF jump THEN JUMP_FORCE ELSE guide.vel.y]

\* a tether that pulls whether or not the characters are linked
TetherPullsUnlinked(q) ==
    GuideCompanionDist2(q) > TETHER_LENGTH * TETHER_LENGTH

\* line 684: the tether pulls
TetherPulls(q) ==
    q.isTethered /\ GuideCompanionDist2(q) > TETHER_LENGTH * TETHER_LENGTH

\* lines 685-690: the pull on the Companion (weight 0.8) and on the Guide (0.2);
\* force = (dist - 70) * 0.05, so cos(angle) * force * w = dx (dist - 70) w / (20 dist)
TetherForce(q) ==
    LET dx == q.guide.pos.x - q.companion.pos.x
        dy == q.guide.pos.y - q.companion.pos.y
        dist == Hypot(dx, dy)
        stretch == dist - TETHER_LENGTH
    IN  [cx |-> TruncDiv(dx * stretch * 8, 200 * dist),
         cy |-> TruncDiv(dy * stretch * 8, 200 * dist),
         gx |-> TruncDiv(dx * stretch * 2, 200 * dist),
         gy |-> TruncDiv(dy * stretch * 2, 200 * dist)]

\* lines 679-693
TetherStep(q) ==
    LET f == TetherForce(q)
        q1 == IF TetherPulls(q)
              THEN [q EXCEPT !.companion.vel.x = q.companion.vel.x + f.cx,
                             !.companion.vel.y = q.companion.vel.y + f.cy,
                             !.guide.vel.x = q.guide.vel.x - f.gx,
                             !.guide.vel.y = q.guide.vel.y - f.gy]
              ELSE q
    IN  [q1 EXCEPT !.companion.vel.x = CompanionDrag(q1.companion.vel.x)]

\* lines 711-717
InNoInkZone(zones, worldX, worldY) ==
    \E k \in 1..Len(zones) :
        /\ worldX >= zones[k].x /\ worldX <= zones[k].x + zones[k].width
        /\ worldY >= zones[k].y /\ worldY <= zones[k].y + zones[k].height

\* a draw step that commits without looking at the budget
DrawStepAnyCost(q, pointer, ink) ==
    LET worldX == pointer.x + q.cameraX
        worldY == pointer.y
        here == [x |-> worldX, y |-> worldY]
    IN  IF pointer.isDown /\ ink > 0
        THEN IF ~InNoInkZone(q.noInkZones, worldX, worldY)
             THEN IF q.lastMousePos # <<>>
                  THEN LET last == q.lastMousePos[1]
                           d2 == Dist2(worldX - last.x, worldY - last.y)
                           cost == Hypot(worldX - last.x, worldY - last.y) \div 2
                       IN  IF d2 > PX(10) * PX(10)
                           THEN [q |-> [q EXCEPT !.bridges = Append(q.bridges, [p1 |-> last, p2 |-> here]),
                                                 !.lastMousePos = <<here>>,
                                                 !.bridgeCount = q.bridgeCount + 1],
                                 sig |-> <<SigSetInk(ink - cost)>>]
                           ELSE [q |-> q, sig |-> <<>>]
                  ELSE [q |-> [q EXCEPT !.lastMousePos = <<here>>], sig |-> <<>>]
             ELSE [q |-> [q EXCEPT !.lastMousePos = <<>>], sig |-> <<>>]
        ELSE [q |-> [q EXCEPT !.lastMousePos = <<>>], sig |-> <<>>]

\* a draw step that puts the new segment in front of the list
DrawStepInFront(q, pointer, ink) ==
    LET worldX == pointer.x + q.cameraX
        worldY == pointer.y
        here == [x |-> worldX, y |-> worldY]
    IN  IF pointer.isDown /\ ink > 0
        THEN IF ~InNoInkZone(q.noInkZones, worldX, worldY)
             THEN IF q.lastMousePos # <<>>
                  THEN LET last == q.lastMousePos[1]
                           d2 == Dist2(worldX - last.x, worldY - last.y)
                           cost == Hypot(worldX - last.x, worldY - last.y) \div 2
                       IN  IF d2 > PX(10) * PX(10) /\ ink >= cost
                           THEN [q |-> [q EXCEPT !.bridges = <<[p1 |-> last, p2 |-> here]>> \o q.bridges,
                                                 !.lastMousePos = <<here>>,
                                                 !.bridgeCount = q.bridgeCount + 1],
                                 sig |-> <<SigSetInk(ink - cost)>>]
                           ELSE [q |-> q, sig |-> <<>>]
                  ELSE [q |-> [q EXCEPT !.lastMousePos = <<here>>], sig |-> <<>>]
             ELSE [q |-> [q EXCEPT !.lastMousePos = <<>>], sig |-> <<>>]
        ELSE [q |-> [q EXCEPT !.lastMousePos = <<>>], sig |-> <<>>]

\* a draw step that does not count the segment it commits
DrawStepUncounted(q, pointer, ink) ==
    LET worldX == pointer.x + q.cameraX
        worldY == pointer.y
        here == [x |-> worldX, y |-> worldY]
    IN  IF pointer.isDown /\ ink > 0
        THEN IF ~InNoInkZone(q.noInkZones, worldX, worldY)
             THEN IF q.lastMousePos # <<>>
                  THEN LET last == q.lastMousePos[1]
                           d2 == Dist2(worldX - last.x, worldY - last.y)
                           cost == Hypot(worldX - last.x, worldY - last.y) \div 2
                       IN  IF d2 > PX(10) * PX(10) /\ ink >= cost
                           THEN [q |-> [q EXCEPT !.bridges = Append(q.bridges, [p1 |-> last, p2 |-> here]),
                                                 !.lastMousePos = <<here>>,
                                                 !.bridgeCount = q.bridgeCount],
                                 sig |-> <<SigSetInk(ink - cost)>>]
                           ELSE [q |-> q, sig |-> <<>>]
                  ELSE [q |-> [q EXCEPT !.lastMousePos = <<here>>], sig |-> <<>>]
             ELSE [q |-> [q EXCEPT !.lastMousePos = <<>>], sig |-> <<>>]
        ELSE [q |-> [q EXCEPT !.lastMousePos = <<>>], sig |-> <<>>]

\* a draw step that moves the last draw point on when the budget refuses a segment
DrawStepMovesOn(q, pointer, ink) ==
    LET worldX == pointer.x + q.cameraX
        worldY == pointer.y
        here == [x |-> worldX, y |-> worldY]
    IN  IF pointer.isDown /\ ink > 0
        THEN IF ~InNoInkZone(q.noInkZones, worldX, worldY)
             THEN IF q.lastMousePos # <<>>
                  THEN LET last == q.lastMousePos[1]
                           d2 == Dist2(worldX - last.x, worldY - last.y)
                           cost == Hypot(worldX - last.x, worldY - last.y) \div 2
                       IN  IF d2 > PX(10) * PX(10)
                           THEN IF ink >= cost
                                THEN [q |-> [q EXCEPT !.bridges = Append(q.bridges, [p1 |-> last, p2 |-> here]),
                                                      !.lastMousePos = <<here>>,
                                                      !.bridgeCount = q.bridgeCount + 1],
                                      sig |-> <<SigSetInk(ink - cost)>>]
                                ELSE [q |-> [q EXCEPT !.lastMousePos = <<here>>], sig |-> <<>>]
                           ELSE [q |-> q, sig |-> <<>>]
                  ELSE [q |-> [q EXCEPT !.lastMousePos = <<here>>], sig |-> <<>>]
             ELSE [q |-> [q EXCEPT !.lastMousePos = <<>>], sig |-> <<>>]
        ELSE [q |-> [q EXCEPT !.lastMousePos = <<>>], sig |-> <<>>]

\* lines 705-745: [q |-> the context after, sig |-> setInkLeft calls];
\* ink is the inkLeft prop the tick closure captured
DrawStep(q, pointer, ink) ==
    LET worldX == pointer.x + q.cameraX
        worldY == pointer.y
        here == [x |-> worldX, y |-> worldY]
    IN  IF pointer.isDown /\ ink > 0
        THEN IF ~InNoInkZone(q.noInkZones, worldX, worldY)
             THEN IF q.lastMousePos # <<>>
                  THEN LET last == q.lastMousePos[1]
                           d2 == Dist2(worldX - last.x, worldY - last.y)
                           cost == Hypot(worldX - last.x, worldY - last.y) \div 2
                       IN  IF d2 > PX(10) * PX(10) /\ ink >= cost
                           THEN [q |-> [q EXCEPT !.bridges = Append(q.bridges, [p1 |-> last, p2 |-> here]),
                                                 !.lastMousePos = <<here>>,
                                                 !.bridgeCount = q.bridgeCount + 1],
                                 sig |-> <<SigSetInk(ink - cost)>>]
                           ELSE [q |-> q, sig |-> <<>>]
                  ELSE [q |-> [q EXCEPT !.lastMousePos = <<here>>], sig |-> <<>>]
             ELSE [q |-> [q EXCEPT !.lastMousePos = <<>>], sig |-> <<>>]
        ELSE [q |-> [q EXCEPT !.lastMousePos = <<>>], sig |-> <<>>]

\* window.innerWidth
InnerWidth == PX(400)

\* a camera whose trailing edge spares a Guide that is still invulnerable
CameraStepSparesShielded(q, level) ==
    IF level.autoScrollSpeed # 0
    THEN LET cam == q.cameraX + level.autoScrollSpeed
             killThreshold == cam - PX(50)
         IN  [cameraX |-> cam,
              sig |-> IF /\ q.guide.invulnerableTimer <= 0
                         /\ (q.guide.pos.x < killThreshold \/ q.companion.pos.x < killThreshold)
                      THEN <<SigGameOver>> ELSE <<>>]
    ELSE LET targetX == IF q.isTethered
                        THEN TruncDiv(q.guide.pos.x + q.companion.pos.x, 2)
                        ELSE q.guide.pos.x
             targetCamX == targetX - InnerWidth \div 2
         IN  [cameraX |-> q.cameraX + Frac(targetCamX - q.cameraX, 8, 100), sig |-> <<>>]

\* lines 748-770: [cameraX, sig]
CameraStep(q, level) ==
    IF level.autoScrollSpeed # 0
    THEN LET cam == q.cameraX + level.autoScrollSpeed
             killThreshold == cam - PX(50)
         IN  [cameraX |-> cam,
              sig |-> IF q.guide.pos.x < killThreshold \/ q.companion.pos.x < killThreshold
                      THEN <<SigGameOver>> ELSE <<>>]
    ELSE LET targetX == IF q.isTethered
                        THEN TruncDiv(q.guide.pos.x + q.companion.pos.x, 2)
                        ELSE q.guide.pos.x
             targetCamX == targetX - InnerWidth \div 2
         IN  [cameraX |-> q.cameraX + Frac(targetCamX - q.cameraX, 8, 100), sig |-> <<>>]

\* p.platforms.find(pl => pl.type === 'goal'): the index, 0 when none
FindGoal(platforms) ==
    LET hits == {k \in 1..Len(platforms) : platforms[k].type = "goal"}
    IN  IF hits = {} THEN 0 ELSE CHOOSE k \in hits : \A j \in hits : k <= j

\* isTouchingGoal(entity), tolerance 30
isTouchingGoal(entity, goal) ==
    /\ entity.pos.x < goal.x + goal.width + PX(30)
    /\ entity.pos.x + entity.width > goal.x - PX(30)
    /\ entity.pos.y < goal.y + goal.height + PX(30)
    /\ entity.pos.y + entity.height > goal.y - PX(30)

\* a win check that does not ask for the tether
WinStepUnlinked(q, level) ==
    LET g == FindGoal(q.platforms)
    IN  IF g # 0 /\ level.boss = <<>>
        THEN IF /\ isTouchingGoal(q.companion, q.platforms[g])
                /\ isTouchingGoal(q.guide, q.platforms[g])
             THEN <<SigComplete(q.bridgeCount)>>
             ELSE <<>>
        ELSE <<>>

\* a win check that does not ask whether the level has a boss
WinStepBossLevels(q, level) ==
    LET g == FindGoal(q.platforms)
    IN  IF g # 0
        THEN IF /\ q.isTethered
                /\ isTouchingGoal(q.companion, q.platforms[g])
                /\ isTouchingGoal(q.guide, q.platforms[g])
             THEN <<SigComplete(q.bridgeCount)>>
             ELSE <<>>
        ELSE <<>>

\* lines 773-789: the signals of the win check
WinStep(q, level) ==
    LET g == FindGoal(q.platforms)
    IN  IF g # 0 /\ level.boss = <<>>
        THEN IF /\ q.isTethered
                /\ isTouchingGoal(q.companion, q.platforms[g])
                /\ isTouchingGoal(q.guide, q.platforms[g])
             THEN <<SigComplete(q.bridgeCount)>>
             ELSE <<>>
        ELSE <<>>

----------------------------------------------------------------------------
(* Level descriptors (LevelData).  An absent optional number is 0, an absent *)
(* boss is <<>>; coordinates are given in pixels.                            *)

Vec(x, y) == [x |-> PX(x), y |-> PX(y)]

Plat(x, y, w, h, type) ==
    [x |-> PX(x), y |-> PX(y), width |-> PX(w), height |-> PX(h), type |-> type,
     gateId |-> 0, isOpen |-> FALSE]

Gate(x, y, w, h, gateId) ==
    [x |-> PX(x), y |-> PX(y), width |-> PX(w), height |-> PX(h), type |-> "gate",
     gateId |-> gateId, isOpen |-> FALSE]

Btn(id, x, y, w, h, gateId, spawnerId) ==
    [id |-> id, triggerGateId |-> gateId, triggerSpawnerId |-> spawnerId,
     x |-> PX(x), y |-> PX(y), width |-> PX(w), height |-> PX(h), isPressed |-> FALSE]

CrateAt(id, type, x, y, w, h) ==
    [id |-> id, type |-> type, pos |-> Vec(x, y), vel |-> [x |-> 0, y |-> 0],
     width |-> PX(w), height |-> PX(h), isGrounded |-> FALSE]

MonsterAt(id, x, y, vx, patrolStart, patrolEnd) ==
    [id |-> id, pos |-> Vec(x, y), vel |-> [x |-> vx, y |-> 0],
     width |-> PX(40), height |-> PX(40),
     patrolStart |-> PX(patrolStart), patrolEnd |-> PX(patrolEnd)]

BossAt(x, y, hp, attackTimer) ==
    [x |-> PX(x), y |-> PX(y), width |-> PX(100), height |-> PX(100), hp |-> hp, maxHp |-> hp,
     phase |-> 1, attackTimer |-> attackTimer, shotCount |-> 0, invulnerableTimer |-> 0,
     state |-> "cooldown"]

SpawnerAt(id, x, y, cooldown) ==
    [id |-> id, x |-> PX(x), y |-> PX(y), itemType |-> "bomb", cooldown |-> cooldown]

ZoneAt(x, y, w, h) == [x |-> PX(x), y |-> PX(y), width |-> PX(w), height |-> PX(h)]

\* a level with a floor at y = 200 and nothing else
BaseLevel(start, companion) ==
    [startPos |-> start, companionPos |-> companion,
     platforms |-> <<Plat(0, 200, 400, 100, "ground")>>,
     crates |-> <<>>, buttons |-> <<>>, monsters |-> <<>>, boss |-> <<>>,
     spawners |-> <<>>, inkLimit |-> PX(100), noInkZones |-> <<>>,
     autoScrollSpeed |-> 0, playerMaxHp |-> 0]

\* the level table: small LevelData descriptors of the kind generateLevel(levelIdx)
\* builds, one per situation the properties below are about
Levels ==
    << \* 1: characters 150 apart (beyond the reconnect distance)
       BaseLevel(Vec(250, 170), Vec(100, 170)),
       \* 2: characters 85 apart (tether stretched, reconnect allowed)
       BaseLevel(Vec(215, 170), Vec(130, 170)),
       \* 3: drawing, one no-ink zone; the camera rests at 0
       [BaseLevel(Vec(215, 170), Vec(185, 170)) EXCEPT
            !.noInkZones = <<ZoneAt(100, 0, 50, 160)>>],
       \* 4: two buttons drive gate 1; the Guide starts on the first one
       [BaseLevel(Vec(100, 170), Vec(40, 170)) EXCEPT
            !.platforms = <<Plat(0, 200, 400, 100, "ground"), Gate(300, 100, 40, 100, 1)>>,
            !.buttons = <<Btn(1, 90, 200, 60, 10, 1, 0), Btn(2, 200, 200, 60, 10, 1, 0)>>],
       \* 5: one button drives gate 1
       [BaseLevel(Vec(100, 170), Vec(40, 170)) EXCEPT
            !.platforms = <<Plat(0, 200, 400, 100, "ground"), Gate(300, 100, 40, 100, 1)>>,
            !.buttons = <<Btn(1, 130, 200, 60, 10, 1, 0)>>],
       \* 6: boss with hp 4 and a bomb lying inside it
       [BaseLevel(Vec(60, 170), Vec(30, 170)) EXCEPT
            !.boss = <<BossAt(250, 60, 4, 20)>>,
            !.crates = <<CrateAt(1, "bomb", 280, 120, 40, 40)>>,
            !.spawners = <<SpawnerAt(1, 280, 120, 0)>>],
       \* 7: a goal next to the start
       [BaseLevel(Vec(215, 170), Vec(185, 170)) EXCEPT
            !.platforms = <<Plat(0, 200, 400, 100, "ground"), Plat(270, 150, 60, 50, "goal")>>],
       \* 8: custom health pool of 1, a monster standing on the Guide
       [BaseLevel(Vec(215, 170), Vec(185, 170)) EXCEPT
            !.playerMaxHp = 1,
            !.monsters = <<MonsterAt(1, 200, 160, 0, 150, 300)>>],
       \* 9: both characters start within reach of the goal
       [BaseLevel(Vec(235, 170), Vec(215, 170)) EXCEPT
            !.platforms = <<Plat(0, 200, 400, 100, "ground"), Plat(270, 150, 60, 50, "goal")>>],
       \* 10: a hazard on the face of a wall, listed after the wall; the Guide starts in it
       [BaseLevel(Vec(105, 165), Vec(50, 170)) EXCEPT
            !.platforms = <<Plat(0, 200, 400, 100, "ground"), Plat(100, 100, 40, 200, "ground"),
                            Plat(100, 150, 40, 50, "hazard")>>],
       \* 11: the same hazard and wall, the hazard listed first; custom health pool of 3
       [BaseLevel(Vec(105, 165), Vec(50, 170)) EXCEPT
            !.platforms = <<Plat(100, 150, 40, 50, "hazard"), Plat(0, 200, 400, 100, "ground"),
                            Plat(100, 100, 40, 200, "ground")>>,
            !.playerMaxHp = 3],
       \* 12: a hazard strip under both characters, which start side by side above it
       [BaseLevel(Vec(105, 169), Vec(50, 169)) EXCEPT
            !.platforms = <<Plat(0, 200, 400, 100, "hazard")>>],
       \* 13: boss with hp 1 and a bomb lying inside it; both characters at a goal
       [BaseLevel(Vec(235, 170), Vec(215, 170)) EXCEPT
            !.platforms = <<Plat(0, 200, 400, 100, "ground"), Plat(270, 150, 60, 50, "goal")>>,
            !.boss = <<BossAt(250, 60, 1, 20)>>,
            !.crates = <<CrateAt(1, "bomb", 280, 120, 40, 40)>>],
       \* 14: a monster standing on the Guide, no boss and no custom health pool
       [BaseLevel(Vec(215, 170), Vec(185, 170)) EXCEPT
            !.monsters = <<MonsterAt(1, 200, 160, 0, 150, 300)>>],
       \* 15: a monster standing on the Guide, custom health pool of 2
       [BaseLevel(Vec(215, 170), Vec(185, 170)) EXCEPT
            !.playerMaxHp = 2,
            !.monsters = <<MonsterAt(1, 200, 160, 0, 150, 300)>>],
       \* 16: boss with hp 5 about to fire; two bombs, a wooden crate and a monster inside
       \* it, a bomb dispenser above it, the Guide beneath it, the Companion on a ledge
       \* inside it, within the monster
       [BaseLevel(Vec(285, 170), Vec(270, 110)) EXCEPT
            !.platforms = <<Plat(0, 200, 400, 100, "ground"), Plat(250, 140, 100, 20, "ground")>>,
            !.boss = <<BossAt(250, 60, 5, 1)>>,
            !.crates = <<CrateAt(1, "bomb", 280, 120, 40, 40),
                         CrateAt(2, "wood", 270, 80, 40, 40),
                         CrateAt(3, "bomb", 300, 100, 40, 40)>>,
            !.monsters = <<MonsterAt(1, 260, 100, 10, 250, 350)>>,
            !.spawners = <<SpawnerAt(1, 280, 80, 0)>>],
       \* 17: boss in phase 1 about to wake, nothing to hurt it; custom health pool of 4
       [BaseLevel(Vec(60, 170), Vec(30, 170)) EXCEPT
            !.playerMaxHp = 4,
            !.boss = <<BossAt(250, 60, 5, 1)>>],
       \* 18: boss in phase 2 about to wake, nothing to hurt it
       [BaseLevel(Vec(60, 170), Vec(30, 170)) EXCEPT
            !.boss = <<[BossAt(250, 60, 3, 1) EXCEPT !.phase = 2]>>],
       \* 19: a bomb dispenser driven by a button one step to the Guide's right
       [BaseLevel(Vec(100, 170), Vec(40, 170)) EXCEPT
            !.buttons = <<Btn(1, 130, 200, 60, 10, 0, 1)>>,
            !.spawners = <<SpawnerAt(1, 300, 100, 3)>>],
       \* 20: a bomb dispenser without a button, a bomb lying 250 away from it
       [BaseLevel(Vec(100, 170), Vec(40, 170)) EXCEPT
            !.crates = <<CrateAt(1, "bomb", 50, 160, 40, 40)>>,
            !.spawners = <<SpawnerAt(1, 300, 160, 0)>>],
       \* 21: custom health pool of 3; a monster pacing over the Guide, another pacing
       \* out of its reach
       [BaseLevel(Vec(215, 170), Vec(185, 170)) EXCEPT
            !.playerMaxHp = 3,
            !.monsters = <<MonsterAt(1, 200, 160, 30, 195, 205),
                           MonsterAt(2, 300, 160, -20, 297, 310)>>],
       \* 22: forced scrolling at 30 per tick, custom health pool of 3, a monster pacing
       \* over the Guide, the Companion 30 behind the Guide
       [BaseLevel(Vec(60, 170), Vec(30, 170)) EXCEPT
            !.playerMaxHp = 3,
            !.autoScrollSpeed = PX(30),
            !.monsters = <<MonsterAt(1, 50, 160, 10, 40, 80)>>],
       \* 23: the Guide leans on a crate that has a wall 3 to its right, the Companion
       \* on a crate that has the goal 3 to its left
       [BaseLevel(Vec(100, 170), Vec(40, 170)) EXCEPT
            !.platforms = <<Plat(0, 200, 400, 100, "ground"), Plat(168, 100, 40, 100, "ground"),
                            Plat(-40, 100, 42, 100, "goal")>>,
            !.crates = <<CrateAt(1, "wood", 125, 160, 40, 40),
                         CrateAt(2, "wood", 5, 160, 40, 40)>>],
       \* 24: as 23 with a gate whose button nobody reaches for the wall and a hazard
       \* for the goal
       [BaseLevel(Vec(100, 170), Vec(40, 170)) EXCEPT
            !.platforms = <<Plat(0, 200, 400, 100, "ground"), Gate(168, 100, 40, 100, 1),
                            Plat(-40, 100, 42, 100, "hazard")>>,
            !.buttons = <<Btn(1, 330, 200, 60, 10, 1, 0)>>,
            !.crates = <<CrateAt(1, "wood", 125, 160, 40, 40),
                         CrateAt(2, "wood", 5, 160, 40, 40)>>],
       \* 25: the Guide leans on a crate that has a gate 3 to its right and stands on
       \* the button of that gate
       [BaseLevel(Vec(100, 170), Vec(40, 170)) EXCEPT
            !.platforms = <<Plat(0, 200, 400, 100, "ground"), Gate(168, 100, 40, 100, 1)>>,
            !.buttons = <<Btn(1, 90, 200, 60, 10, 1, 0)>>,
            !.crates = <<CrateAt(1, "wood", 125, 160, 40, 40)>>],
       \* 26: both characters start within reach of the goal, a monster standing on
       \* the Guide; no boss and no custom health pool
       [BaseLevel(Vec(235, 170), Vec(215, 170)) EXCEPT
            !.platforms = <<Plat(0, 200, 400, 100, "ground"), Plat(270, 150, 60, 50, "goal")>>,
            !.monsters = <<MonsterAt(1, 225, 160, 0, 150, 300)>>],
       \* 27: boss with hp 2, two bombs lying inside it and a bomb dispenser inside it
       \* that is due on tick 60
       [BaseLevel(Vec(60, 170), Vec(30, 170)) EXCEPT
            !.boss = <<BossAt(250, 60, 2, 1)>>,
            !.crates = <<CrateAt(1, "bomb", 280, 120, 40, 40),
                         CrateAt(2, "bomb", 300, 100, 40, 40)>>,
            !.spawners = <<SpawnerAt(1, 280, 80, 60)>>],
       \* 28: boss with hp 4, a bomb lying inside it and three bomb dispensers inside
       \* it, due on ticks 60, 120 and 180
       [BaseLevel(Vec(60, 170), Vec(30, 170)) EXCEPT
            !.boss = <<BossAt(250, 60, 4, 1)>>,
            !.crates = <<CrateAt(1, "bomb", 280, 120, 40, 40)>>,
            !.spawners = <<SpawnerAt(1, 280, 80, 60), SpawnerAt(2, 280, 80, 120),
                           SpawnerAt(3, 280, 80, 180)>>],
       \* 29: characters 102 apart, the Companion to the Guide's right: one step of
       \* the Guide brings them within the reconnect distance
       BaseLevel(Vec(100, 170), Vec(202, 170)),
       \* 30: both characters start within reach of the goal
       [BaseLevel(Vec(235, 170), Vec(215, 170)) EXCEPT
            !.platforms = <<Plat(0, 200, 400, 100, "ground"), Plat(270, 150, 60, 50, "goal")>>],
       \* 31: the same with a no-ink zone over the left of the screen
       [BaseLevel(Vec(235, 170), Vec(215, 170)) EXCEPT
            !.platforms = <<Plat(0, 200, 400, 100, "ground"), Plat(270, 150, 60, 50, "goal")>>,
            !.noInkZones = <<ZoneAt(0, 0, 50, 160)>>],
       \* 32: a monster that brushes the Guide on the first tick and runs on to the
       \* right; no boss and no custom health pool
       [BaseLevel(Vec(215, 170), Vec(185, 170)) EXCEPT
            !.monsters = <<MonsterAt(1, 200, 160, 300, 150, 1000)>>]
    >>

----------------------------------------------------------------------------
(* Level initialisation *)

\* the initial physicsRef.current, lines 47-66
MountPhysics ==
    [guide |-> [pos |-> [x |-> 0, y |-> 0], vel |-> [x |-> 0, y |-> 0],
                width |-> PX(30), height |-> PX(30), isGrounded |-> FALSE,
                hp |-> 5, maxHp |-> 5, invulnerableTimer |-> 0],
     companion |-> [pos |-> [x |-> 0, y |-> 0], vel |-> [x |-> 0, y |-> 0],
                    width |-> PX(30), height |-> PX(30), isGrounded |-> FALSE,
                    hp |-> 5, maxHp |-> 5, invulnerableTimer |-> 0],
     bridges |-> <<>>, platforms |-> <<>>, crates |-> <<>>, buttons |-> <<>>,
     monsters |-> <<>>, noInkZones |-> <<>>, boss |-> <<>>, projectiles |-> <<>>,
     spawners |-> <<>>, bridgeCount |-> 0, lastMousePos |-> <<>>, cameraX |-> 0,
     time |-> 0, isTethered |-> TRUE]

\* const startingHp = currentLevel.playerMaxHp || 5
StartingHp(level) == IF level.playerMaxHp # 0 THEN level.playerMaxHp ELSE 5

\* the Init Level effect, lines 79-117: the context after it
InitLevel(q, level) ==
    [q EXCEPT !.guide.pos = level.startPos,
              !.guide.vel = [x |-> 0, y |-> 0],
              !.guide.hp = StartingHp(level),
              !.guide.maxHp = StartingHp(level),
              !.guide.invulnerableTimer = 0,
              !.companion.pos = level.companionPos,
              !.companion.vel = [x |-> 0, y |-> 0],
              !.companion.hp = 5,
              !.companion.maxHp = 5,
              !.bridges = <<>>,
              !.projectiles = <<>>,
              !.platforms = level.platforms,
              !.crates = level.crates,
              !.buttons = level.buttons,
              !.monsters = level.monsters,
              !.noInkZones = level.noInkZones,
              !.boss = level.boss,
              !.spawners = level.spawners,
              !.bridgeCount = 0,
              !.cameraX = 0,
              !.time = 0,
              !.isTethered = TRUE]

----------------------------------------------------------------------------
(* Host (App.tsx) *)

\* the host state a tick's callbacks write: h = [gameState, inkLeft, playerHp, timers, pending]
\* handleReset (lines 203-209), called through onGameOver, by the closure of level lvl
handleReset(h, lvl) ==
    [h EXCEPT !.gameState = "MENU", !.timers = Append(h.timers, lvl)]

\* handleLevelComplete (lines 215-221) up to its await, by a closure that saw the props
\* seen: the generateNarrative call it makes is left pending
handleLevelComplete(h, seen) ==
    IF seen.gameState = "LEVEL_COMPLETE" THEN h
    ELSE [h EXCEPT !.gameState = "LEVEL_COMPLETE", !.pending = Append(h.pending, seen.levelIdx)]

RECURSIVE ApplySignals(_, _, _, _)
\* the host calls of one tick, in order
ApplySignals(h, sig, i, seen) ==
    IF i > Len(sig) THEN h
    ELSE LET s == sig[i]
             h1 == IF s.kind = "gameOver" THEN handleReset(h, seen.levelIdx)
                   ELSE IF s.kind = "complete" THEN handleLevelComplete(h, seen)
                   ELSE IF s.kind = "setInk" THEN [h EXCEPT !.inkLeft = s.n]
                   ELSE [h EXCEPT !.playerHp = s.n]
         IN  ApplySignals(h1, sig, i + 1, seen)

----------------------------------------------------------------------------
(* tick() *)

ObsIdle ==
    [ran |-> FALSE, sig |-> <<>>, dmg |-> <<>>, bossHits |-> 0, bossShots |-> 0,
     bossDied |-> FALSE, held |-> FALSE, edge |-> FALSE, was |-> FALSE,
     linked |-> FALSE, dist2 |-> 0, dx |-> 0, dy |-> 0,
     gv0 |-> [x |-> 0, y |-> 0], cv0 |-> [x |-> 0, y |-> 0],
     gv1 |-> [x |-> 0, y |-> 0], cv1 |-> [x |-> 0, y |-> 0],
     gAt |-> [x |-> 0, y |-> 0],
     cAt |-> [x |-> 0, y |-> 0],
     bossNear |-> 0,
     bossLeft |-> 0,
     bossTimer |-> 0,
     bossStep |-> FALSE,
     fired |-> <<>>,
     spawned |-> <<>>,
     pushes |-> <<>>,
     asked |-> ""]

\* the context at the start of a tick body
StartTick(q, cooldown) ==
    [p |-> q, toggleCooldown |-> cooldown, sig |-> <<>>, dmg |-> <<>>, bossHits |-> 0,
     bossShots |-> 0, bossDied |-> FALSE, held |-> FALSE, edge |-> FALSE, was |-> FALSE,
     linked |-> FALSE, dist2 |-> 0, dx |-> 0, dy |-> 0,
     gv0 |-> [x |-> 0, y |-> 0], cv0 |-> [x |-> 0, y |-> 0],
     gv1 |-> [x |-> 0, y |-> 0], cv1 |-> [x |-> 0, y |-> 0],
     gAt |-> [x |-> 0, y |-> 0],
     cAt |-> [x |-> 0, y |-> 0],
     bossNear |-> 0,
     bossLeft |-> 0,
     bossTimer |-> 0,
     bossStep |-> FALSE,
     fired |-> <<>>,
     spawned |-> <<>>,
     pushes |-> <<>>,
     asked |-> ""]

\* line 631 (p.time += 0.05) and the toggle, lines 634-654 (what the toggle saw is noted)
StepToggle(c, keysDown) ==
    [c EXCEPT !.p.time = c.p.time + 1,
              !.held = "KeyE" \in keysDown,
              !.edge = "KeyE" \in keysDown /\ ~c.toggleCooldown,
              !.was = c.p.isTethered,
              !.p.isTethered = ToggleTether(c.p, c.toggleCooldown, keysDown).isTethered,
              !.toggleCooldown = ToggleTether(c.p, c.toggleCooldown, keysDown).toggleCooldown]

StepButtons(c) == [c EXCEPT !.p = updateButtons(c.p)]

\* line 660 (the crates updateSpawners pushed are noted)
StepSpawners(c) ==
    [c EXCEPT !.p = updateSpawners(c.p),
              !.spawned = SubSeq(updateSpawners(c.p).crates, Len(c.p.crates) + 1,
                                 Len(updateSpawners(c.p).crates))]

\* 1. Environment Updates, lines 657-662
StepEnvironment(c, level, gameStateProp, rnd) ==
    updateProjectiles(
        StepSpawners(updateBoss(StepButtons(updateMonsters(c, level)), gameStateProp, rnd)),
        level)

\* 2. Guide Input, lines 665-676 (what the tether step is about to see is noted)
StepInput(c, keysDown) ==
    [c EXCEPT !.p.guide = GuideInput(c.p.guide, keysDown),
              !.linked = c.p.isTethered,
              !.dist2 = GuideCompanionDist2(c.p),
              !.dx = c.p.guide.pos.x - c.p.companion.pos.x,
              !.dy = c.p.guide.pos.y - c.p.companion.pos.y,
              !.gv0 = GuideInput(c.p.guide, keysDown).vel,
              !.cv0 = c.p.companion.vel]

NoteTether(c, q) == [c EXCEPT !.p = q, !.gv1 = q.guide.vel, !.cv1 = q.companion.vel]

\* 3. Tether Logic, lines 679-693
StepTether(c) == NoteTether(c, TetherStep(c.p))

WithGuide(c, r) == [c EXCEPT !.p.guide = r.e, !.sig = c.sig \o r.sig]

WithCompanion(c, r) == [c EXCEPT !.p.companion = r.e, !.sig = c.sig \o r.sig]

\* lines 696-697
StepGuide(c) ==
    WithGuide([c EXCEPT !.gAt = updateEntityPhysics(c.p.guide).pos],
              updateEntityCollisions(updateEntityPhysics(c.p.guide), TRUE,
                                     c.p.platforms, c.p.bridges))

\* lines 699-700
StepCompanion(c) ==
    WithCompanion([c EXCEPT !.cAt = updateEntityPhysics(c.p.companion).pos],
                  updateEntityCollisions(updateEntityPhysics(c.p.companion), TRUE,
                                         c.p.platforms, c.p.bridges))

\* line 702
StepCrates(c) == [c EXCEPT !.p = updateCrates(c.p), !.pushes = PushCalls(MovedCrates(c.p), 1)]

WithDraw(c, d) == [c EXCEPT !.p = d.q, !.sig = c.sig \o d.sig]

\* 5. Drawing
StepDraw(c, pointer, ink) == WithDraw(c, DrawStep(c.p, pointer, ink))

WithCamera(c, cam) == [c EXCEPT !.p.cameraX = cam.cameraX, !.sig = c.sig \o cam.sig]

\* 6. Camera
StepCamera(c, level) == WithCamera(c, CameraStep(c.p, level))

\* 7. Win Condition
StepWin(c, level) == [c EXCEPT !.sig = c.sig \o WinStep(c.p, level)]

\* the body of tick() after the gameState test (lines 630-789), for the closure
\* that captured the props seen
TickBody(q, cooldown, keysDown, pointer, seen, rnd) ==
    StepWin(
      StepCamera(
        StepDraw(
          StepCrates(StepCompanion(StepGuide(StepTether(StepInput(
            StepEnvironment(StepToggle(StartTick(q, cooldown), keysDown),
                            Levels[seen.levelIdx], seen.gameState, rnd),
            keysDown))))),
          pointer, seen.inkLeft),
        Levels[seen.levelIdx]),
      Levels[seen.levelIdx])

\* what a finished tick leaves in obs
ObsOf(c) ==
    [ran |-> TRUE, sig |-> c.sig, dmg |-> c.dmg, bossHits |-> c.bossHits,
     bossShots |-> c.bossShots, bossDied |-> c.bossDied, held |-> c.held,
     edge |-> c.edge, was |-> c.was, linked |-> c.linked,
     dist2 |-> c.dist2, dx |-> c.dx, dy |-> c.dy, gv0 |-> c.gv0, cv0 |-> c.cv0, gv1 |-> c.gv1, cv1 |-> c.cv1,
     gAt |-> c.gAt,
     cAt |-> c.cAt,
     bossNear |-> c.bossNear,
     bossLeft |-> c.bossLeft,
     bossTimer |-> c.bossTimer,
     bossStep |-> c.bossStep,
     fired |-> c.fired,
     spawned |-> c.spawned,
     pushes |-> c.pushes,
     asked |-> c.asked]

\* the Math.random() results a phase-2 volley may draw
RandomDraws ==
    {[radial |-> TRUE, rain |-> [i \in 1..5 |-> [dx |-> 0, dy |-> 0]]],
     [radial |-> FALSE, rain |-> [i \in 1..5 |-> [dx |-> 40 * i - 120, dy |-> 30 * i]]],
     [radial |-> FALSE, rain |-> [i \in 1..5 |-> [dx |-> 0, dy |-> 0]]]}

\* Math.random() is only called by a boss in phase 2
RandomFor(q) ==
    IF q.boss # <<>> /\ q.boss[1].phase = 2 THEN RandomDraws
    ELSE {[radial |-> TRUE, rain |-> [i \in 1..5 |-> [dx |-> 0, dy |-> 0]]]}

\* bound: pending reset timers
MaxTimers == 2

Host ==
    [gameState |-> gameState, inkLeft |-> inkLeft, playerHp |-> playerHp, timers |-> timers,
     pending |-> pending]

\* the state a finished tick body leaves: the context and the host calls it made
TickCommit(c) ==
    /\ Len(ApplySignals(Host, c.sig, 1, view).timers) <= MaxTimers
    /\ p' = c.p
    /\ toggleCooldown' = c.toggleCooldown
    /\ obs' = ObsOf(c)
    /\ gameState' = ApplySignals(Host, c.sig, 1, view).gameState
    /\ inkLeft' = ApplySignals(Host, c.sig, 1, view).inkLeft
    /\ playerHp' = ApplySignals(Host, c.sig, 1, view).playerHp
    /\ timers' = ApplySignals(Host, c.sig, 1, view).timers
    /\ pending' = ApplySignals(Host, c.sig, 1, view).pending

\* one animation frame: animate() calls tick(); maxTime bounds the attempt's length
Tick(maxTime) ==
    /\ p.time < maxTime
    /\ IF view.gameState # "PLAYING"
       THEN /\ obs' = ObsIdle
            /\ UNCHANGED <<p, toggleCooldown, gameState, inkLeft, playerHp, timers, pending>>
       ELSE \E rnd \in RandomFor(p) :
              TickCommit(TickBody(p, toggleCooldown, keys, mouse, view, rnd))
    /\ UNCHANGED <<keys, mouse, levelIdx, view, narrative>>

----------------------------------------------------------------------------
(* Input handlers, lines 1090-1101 *)

handleKeyDown(code) ==
    /\ code \notin keys
    /\ keys' = keys \cup {code}
    /\ obs' = ObsIdle
    /\ UNCHANGED <<p, toggleCooldown, mouse, gameState, levelIdx, inkLeft, playerHp, timers, view, narrative, pending>>

handleKeyUp(code) ==
    /\ code \in keys
    /\ keys' = keys \ {code}
    /\ obs' = ObsIdle
    /\ UNCHANGED <<p, toggleCooldown, mouse, gameState, levelIdx, inkLeft, playerHp, timers, view, narrative, pending>>

handleMouseDown ==
    /\ ~mouse.isDown
    /\ mouse' = [mouse EXCEPT !.isDown = TRUE]
    /\ obs' = ObsIdle
    /\ UNCHANGED <<p, toggleCooldown, keys, gameState, levelIdx, inkLeft, playerHp, timers, view, narrative, pending>>

handleMouseUp ==
    /\ mouse.isDown
    /\ mouse' = [mouse EXCEPT !.isDown = FALSE]
    /\ p' = [p EXCEPT !.lastMousePos = <<>>]
    /\ obs' = ObsIdle
    /\ UNCHANGED <<toggleCooldown, keys, gameState, levelIdx, inkLeft, playerHp, timers, view, narrative, pending>>

handleMouseMove(x, y) ==
    /\ <<mouse.x, mouse.y>> # <<PX(x), PX(y)>>
    /\ mouse' = [mouse EXCEPT !.x = PX(x), !.y = PX(y)]
    /\ obs' = ObsIdle
    /\ UNCHANGED <<p, toggleCooldown, keys, gameState, levelIdx, inkLeft, playerHp, timers, view, narrative, pending>>

----------------------------------------------------------------------------
(* Host steps *)

HostProps == [gameState |-> gameState, levelIdx |-> levelIdx, inkLeft |-> inkLeft]

\* React renders App and GameCanvas with the current state and runs the effects
\* whose dependencies changed: Init Level (GameCanvas lines 79-117, on
\* currentLevel or gameState) and the ink reset (App lines 199-201, on currentLevel)
Rerender ==
    /\ view # HostProps
    /\ view' = HostProps
    /\ IF view.gameState # gameState \/ view.levelIdx # levelIdx
       THEN /\ p' = InitLevel(p, Levels[levelIdx])
            /\ playerHp' = StartingHp(Levels[levelIdx])
       ELSE UNCHANGED <<p, playerHp>>
    /\ inkLeft' = IF view.levelIdx # levelIdx THEN Levels[levelIdx].inkLimit ELSE inkLeft
    /\ obs' = ObsIdle
    /\ UNCHANGED <<toggleCooldown, keys, mouse, gameState, levelIdx, timers, narrative, pending>>

\* the setTimeout callback of handleReset (App lines 205-208)
TimerFire ==
    /\ timers # <<>>
    /\ timers' = Tail(timers)
    /\ gameState' = "PLAYING"
    /\ inkLeft' = Levels[Head(timers)].inkLimit
    /\ obs' = ObsIdle
    /\ UNCHANGED <<p, toggleCooldown, keys, mouse, levelIdx, playerHp, view, narrative, pending>>

\* generateLevel(nextIdx): levels[(nextIdx - 1) % levels.length], the table being
\* walked round
NextIdx(idx) == IF idx = Len(Levels) THEN 1 ELSE idx + 1

\* handleNextLevel (App lines 223-229), the button of the victory modal
handleNextLevel ==
    /\ gameState = "LEVEL_COMPLETE"
    /\ levelIdx' = NextIdx(levelIdx)
    /\ narrative' = 0
    /\ gameState' = "PLAYING"
    /\ obs' = [ObsIdle EXCEPT !.asked = "next"]
    /\ UNCHANGED <<p, toggleCooldown, keys, mouse, inkLeft, playerHp, timers, view, pending>>

\* the reset button of the header: handleReset (App lines 203-209) of the last render
onReset ==
    /\ Len(timers) < MaxTimers
    /\ gameState' = "MENU"
    /\ timers' = Append(timers, levelIdx)
    /\ obs' = [ObsIdle EXCEPT !.asked = "reset"]
    /\ UNCHANGED <<p, toggleCooldown, keys, mouse, levelIdx, inkLeft, playerHp, view,
                   narrative, pending>>

\* a generateNarrative call resolves and handleLevelComplete resumes after its
\* await (App line 220): setNarrative(text)
NarrativeResolve ==
    /\ \E i \in 1..Len(pending) :
          /\ narrative' = pending[i]
          /\ pending' = RemoveAt(pending, i)
    /\ obs' = ObsIdle
    /\ UNCHANGED <<p, toggleCooldown, keys, mouse, gameState, levelIdx, inkLeft, playerHp,
                   timers, view>>

\* the state after mount on level lvl: the first render and its effects
InitOn(lvl) ==
    /\ p = InitLevel(MountPhysics, Levels[lvl])
    /\ toggleCooldown = FALSE
    /\ keys = {}
    /\ mouse = [x |-> 0, y |-> 0, isDown |-> FALSE]
    /\ gameState = "PLAYING"
    /\ levelIdx = lvl
    /\ inkLeft = Levels[lvl].inkLimit
    /\ playerHp = StartingHp(Levels[lvl])
    /\ timers = <<>>
    /\ view = [gameState |-> "PLAYING", levelIdx |-> lvl, inkLeft |-> Levels[lvl].inkLimit]
    /\ narrative = 0
    /\ pending = <<>>
    /\ obs = ObsIdle

----------------------------------------------------------------------------
(* Specifications.  Each draws the level and the player's inputs from the    *)
(* small sets its properties are about.                                      *)

\* bound: frames per attempt in the tether runs
TetherTicks == 5

TetherLevels == {1, 2, 3, 29}

TetherKeys == {"KeyE", "KeyD"}

InitTether == \E lvl \in TetherLevels : InitOn(lvl)

NextTether ==
    \/ Tick(TetherTicks)
    \/ \E code \in TetherKeys : handleKeyDown(code)
    \/ \E code \in TetherKeys : handleKeyUp(code)

SpecTether == InitTether /\ [][NextTether]_vars

----------------------------------------------------------------------------
(* Tether properties, checked under SpecTether *)

\* C8: the tether correction is applied in a tick if and only if the characters
\* are linked and more than TETHER_LENGTH apart when the tether step runs: then
\* the Companion gains 0.8 and the Guide loses 0.2 of the force along the line
\* between them; in every other tick the tether step leaves both velocities
\* alone except for the Companion's horizontal drag.
C8_TetherCorrection ==
    obs.ran =>
        LET far == obs.dx * obs.dx + obs.dy * obs.dy > PX(70) * PX(70)
            dist == ISqrt(obs.dx * obs.dx + obs.dy * obs.dy)
        IN  IF obs.linked /\ far
            THEN /\ obs.gv1.x = obs.gv0.x - TruncDiv(obs.dx * (dist - PX(70)) * 2, 200 * dist)
                 /\ obs.gv1.y = obs.gv0.y - TruncDiv(obs.dy * (dist - PX(70)) * 2, 200 * dist)
                 /\ obs.cv1.x = CompanionDrag(obs.cv0.x
                                     + TruncDiv(obs.dx * (dist - PX(70)) * 8, 200 * dist))
                 /\ obs.cv1.y = obs.cv0.y + TruncDiv(obs.dy * (dist - PX(70)) * 8, 200 * dist)
            ELSE /\ obs.gv1 = obs.gv0
                 /\ obs.cv1.x = CompanionDrag(obs.cv0.x)
                 /\ obs.cv1.y = obs.cv0.y

\* a tick in which the stretched tether changed both velocities
C8_Witness ==
    /\ obs.ran /\ obs.linked
    /\ obs.dist2 > TETHER_LENGTH * TETHER_LENGTH
    /\ obs.gv1.x < obs.gv0.x
    /\ obs.cv1.x > obs.cv0.x

\* C9: in a tick that sees the toggle key down with the cooldown clear, linked
\* characters become unlinked whatever their distance, and unlinked characters
\* become linked if and only if they are less than RECONNECT_DIST apart.
C9_ToggleEdge ==
    [][(obs'.ran /\ "KeyE" \in keys /\ ~toggleCooldown) =>
          IF p.isTethered
          THEN ~p'.isTethered
          ELSE p'.isTethered <=>
                 (p.guide.pos.x - p.companion.pos.x) * (p.guide.pos.x - p.companion.pos.x)
                 + (p.guide.pos.y - p.companion.pos.y) * (p.guide.pos.y - p.companion.pos.y)
                 < PX(100) * PX(100)]_vars

\* a toggle that found the characters unlinked and too far apart, and left them so
C9_Witness ==
    /\ obs.ran /\ obs.edge /\ ~obs.was
    /\ obs.dist2 >= RECONNECT_DIST * RECONNECT_DIST
    /\ ~p.isTethered

\* C10: the toggle is edge-triggered.  A tick that sees the key down leaves the
\* cooldown set; a tick that sees the key down with the cooldown set does not
\* change isTethered; and the cooldown is cleared only by a tick that sees the
\* key released.
C10_EdgeTriggered ==
    [][/\ (obs'.ran /\ "KeyE" \in keys) => toggleCooldown'
       /\ (obs'.ran /\ "KeyE" \in keys /\ toggleCooldown) => p'.isTethered = p.isTethered
       /\ (toggleCooldown /\ ~toggleCooldown') => (obs'.ran /\ "KeyE" \notin keys)]_vars

\* a later tick of a hold, with the characters unlinked within reconnect distance
C10_Witness ==
    /\ obs.ran /\ obs.held /\ ~obs.edge
    /\ ~obs.was /\ ~p.isTethered
    /\ obs.dist2 < RECONNECT_DIST * RECONNECT_DIST

----------------------------------------------------------------------------
(* Drawing, on level 3: the pointer visits a few places of the canvas, the   *)
(* host re-renders at any moment after a setInkLeft call.                     *)

\* bound: frames per attempt in the drawing runs
DrawTicks == 4

\* pointer positions (clientX, clientY) in pixels, on the line of the pointer's
\* first position (0, 0); (120, 0) is in the no-ink zone, (160, 0) just beyond it
DrawPoints == {<<20, 0>>, <<60, 0>>, <<70, 0>>, <<80, 0>>, <<120, 0>>, <<160, 0>>, <<300, 0>>}

InitDraw == InitOn(3)

NextDraw ==
    \/ Tick(DrawTicks)
    \/ handleMouseDown
    \/ handleMouseUp
    \/ \E pt \in DrawPoints : handleMouseMove(pt[1], pt[2])
    \/ Rerender

SpecDraw == InitDraw /\ [][NextDraw]_vars

\* C2: within one attempt the ink budget held by the host never increases from
\* one value to the next and is never negative, however ticks and re-renders of
\* the inkLeft prop interleave (no step of SpecDraw starts a new attempt).
C2_InkNonIncreasing ==
    [][inkLeft' <= inkLeft /\ inkLeft' >= 0]_vars

\* C3: in a tick that finds the draw input held, its inkLeft above 0 and a last
\* draw point recorded, a segment is committed iff the pointer is more than 10
\* from the last point, inkLeft is at least half that distance and the pointer
\* is outside every no-ink zone; a commit sets the budget to inkLeft less exactly
\* half the distance and makes the pointer the last draw point.  inkLeft is the
\* budget as the tick knows it, the prop of the render that created the tick.
C3_DrawCommit ==
    [][(obs'.ran /\ mouse.isDown /\ view.inkLeft > 0 /\ p.lastMousePos # <<>>) =>
          LET wx == mouse.x + p.cameraX
              wy == mouse.y
              d2 == (wx - p.lastMousePos[1].x) * (wx - p.lastMousePos[1].x)
                    + (wy - p.lastMousePos[1].y) * (wy - p.lastMousePos[1].y)
              outside == \A k \in 1..Len(p.noInkZones) :
                             \/ wx < p.noInkZones[k].x
                             \/ wx > p.noInkZones[k].x + p.noInkZones[k].width
                             \/ wy < p.noInkZones[k].y
                             \/ wy > p.noInkZones[k].y + p.noInkZones[k].height
              committed == Len(p'.bridges) = Len(p.bridges) + 1
          IN  /\ committed <=>
                    (d2 > PX(10) * PX(10) /\ 4 * view.inkLeft * view.inkLeft >= d2 /\ outside)
              /\ committed => /\ 2 * (view.inkLeft - inkLeft') = ISqrt(d2)
                               /\ p'.lastMousePos = <<[x |-> wx, y |-> wy]>>
                               /\ p'.bridges[Len(p'.bridges)].p1 = p.lastMousePos[1]
              /\ ~committed => /\ inkLeft' = inkLeft
                                /\ p'.bridges = p.bridges]_vars

\* scenario B: budget 100, one 40-pixel step, one segment, 80 left
C3_Witness ==
    /\ obs.ran /\ view.inkLeft = PX(100) /\ inkLeft = PX(80)
    /\ Len(p.bridges) = 1
    /\ p.bridges[1].p2.x - p.bridges[1].p1.x = PX(40)
    /\ p.lastMousePos = <<p.bridges[1].p2>>

\* C21: no committed segment passes through a no-ink zone.  (The pointer moves
\* along y = 0 in these runs, so a segment crosses a zone exactly when the
\* zone contains y = 0 and the two x ranges meet.)
C21_NoSegmentThroughZone ==
    \A i \in 1..Len(p.bridges) : \A k \in 1..Len(p.noInkZones) :
        ~(/\ p.bridges[i].p1.y = p.bridges[i].p2.y
          /\ p.bridges[i].p1.y >= p.noInkZones[k].y
          /\ p.bridges[i].p1.y <= p.noInkZones[k].y + p.noInkZones[k].height
          /\ Min(p.bridges[i].p1.x, p.bridges[i].p2.x)
                <= p.noInkZones[k].x + p.noInkZones[k].width
          /\ Max(p.bridges[i].p1.x, p.bridges[i].p2.x) >= p.noInkZones[k].x)

\* C22: a tick that finds the draw input held, the pointer at an allowed point
\* more than 10 from the last draw point, and half that distance above the
\* inkLeft it knows, commits nothing: the budget, the bridge list, bridgeCount
\* and the last draw point are as before.
C22_RefusedSegment ==
    [][(/\ obs'.ran /\ mouse.isDown /\ view.inkLeft > 0 /\ p.lastMousePos # <<>>
        /\ ~InNoInkZone(p.noInkZones, mouse.x + p.cameraX, mouse.y)
        /\ Dist2(mouse.x + p.cameraX - p.lastMousePos[1].x, mouse.y - p.lastMousePos[1].y)
              > PX(10) * PX(10)
        /\ Dist2(mouse.x + p.cameraX - p.lastMousePos[1].x, mouse.y - p.lastMousePos[1].y)
              > 4 * view.inkLeft * view.inkLeft)
       => /\ inkLeft' = inkLeft
          /\ p'.bridges = p.bridges
          /\ p'.bridgeCount = p.bridgeCount
          /\ p'.lastMousePos = p.lastMousePos]_vars

\* a step of 300 from (0, 0) was refused on a budget of 100: the stroke still starts at (0, 0)
C22_Witness ==
    /\ obs.ran /\ mouse.isDown
    /\ mouse.x = PX(300)
    /\ view.inkLeft = PX(100) /\ inkLeft = PX(100)
    /\ p.lastMousePos = <<[x |-> 0, y |-> 0]>>
    /\ p.bridges = <<>>
    /\ p.bridgeCount = 0

----------------------------------------------------------------------------
(* Buttons and gates, on levels 4 and 5: the Guide walks over the buttons *)

\* bound: frames per attempt in the gate runs
GateTicks == 6

GateLevels == {4, 5, 19, 20, 23, 24, 25}

GateKeys == {"KeyA", "KeyD"}

InitGate == \E lvl \in GateLevels : InitOn(lvl)

NextGate ==
    \/ Tick(GateTicks)
    \/ \E code \in GateKeys : handleKeyDown(code)
    \/ \E code \in GateKeys : handleKeyUp(code)

SpecGate == InitGate /\ [][NextGate]_vars

\* C4: after a tick, every gate that some button targets is open exactly when
\* at least one of the buttons targeting it is pressed (the buttons and the
\* gates are as updateButtons left them: nothing later in the tick writes them).
C4_GateIsOrOfButtons ==
    obs.ran =>
        \A g \in 1..Len(p.platforms) :
            (/\ p.platforms[g].gateId # 0
             /\ \E b \in 1..Len(p.buttons) : p.buttons[b].triggerGateId = p.platforms[g].gateId
             /\ \A h \in 1..(g - 1) : p.platforms[h].gateId # p.platforms[g].gateId)
            => (p.platforms[g].isOpen <=>
                  \E b \in 1..Len(p.buttons) :
                      /\ p.buttons[b].triggerGateId = p.platforms[g].gateId
                      /\ p.buttons[b].isPressed)

----------------------------------------------------------------------------
(* The boss, on level 6: a bomb lies inside the boss when the level starts *)

\* bound: frames per attempt in the boss runs
BossTicks == 5

BossKeys == {"KeyA", "KeyD"}

InitBoss == InitOn(6)

NextBoss ==
    \/ Tick(BossTicks)
    \/ \E code \in BossKeys : handleKeyDown(code)
    \/ \E code \in BossKeys : handleKeyUp(code)

SpecBoss == InitBoss /\ [][NextBoss]_vars

\* C5: while a boss lives, its phase never goes from 2 back to 1, and it goes
\* from 1 to 2 only in a tick that found hp <= 3 (and phase 1); hence it
\* changes at most once until the level is initialised again.
C5_PhaseOnce ==
    [][(p.boss # <<>> /\ p'.boss # <<>>) =>
          /\ p.boss[1].phase = 2 => p'.boss[1].phase = 2
          /\ (p.boss[1].phase = 1 /\ p'.boss[1].phase # 1) =>
                 /\ obs'.ran
                 /\ p'.boss[1].phase = 2
                 /\ p.boss[1].hp <= 3]_vars

\* the tick that changed the phase has just ended
C5_Witness ==
    /\ obs.ran /\ p.boss # <<>>
    /\ p.boss[1].phase = 2 /\ p.boss[1].hp = 3
    /\ p.boss[1].state = "cooldown" /\ p.boss[1].attackTimer = 179

\* C6 as claimed: a tick that starts with the boss at hp 4, phase 1, not
\* invulnerable, and a bomb within hit distance, ends with hp 3, phase 2 and
\* invulnerableTimer 60.
C6_SameTick ==
    [][(/\ obs'.ran /\ p.boss # <<>>
        /\ p.boss[1].hp = 4 /\ p.boss[1].phase = 1 /\ p.boss[1].invulnerableTimer <= 0
        /\ \E k \in 1..Len(p.crates) :
              /\ p.crates[k].type = "bomb"
              /\ 4 * ((2 * p.crates[k].pos.x + p.crates[k].width
                         - 2 * p.boss[1].x - p.boss[1].width)
                       * (2 * p.crates[k].pos.x + p.crates[k].width
                         - 2 * p.boss[1].x - p.boss[1].width)
                     + (2 * p.crates[k].pos.y + p.crates[k].height
                         - 2 * p.boss[1].y - p.boss[1].height)
                       * (2 * p.crates[k].pos.y + p.crates[k].height
                         - 2 * p.boss[1].y - p.boss[1].height))
                 < 4 * (p.boss[1].width + p.crates[k].width)
                     * (p.boss[1].width + p.crates[k].width))
       => /\ p'.boss # <<>>
          /\ p'.boss[1].hp = 3
          /\ p'.boss[1].phase = 2
          /\ p'.boss[1].invulnerableTimer = 60]_vars

\* C6 as amended: a tick that starts with the boss at hp 4, phase 1, not
\* invulnerable, and in which a bomb touches the boss, ends with hp 3,
\* invulnerableTimer 60 and the phase still 1; the next tick, finding hp 3 in
\* phase 1, sets the phase to 2.
C6_HitThenPhase ==
    [][(obs'.ran /\ p.boss # <<>>) =>
          /\ (/\ p.boss[1].hp = 4 /\ p.boss[1].phase = 1
               /\ p.boss[1].invulnerableTimer <= 0 /\ obs'.bossHits > 0)
              => /\ p'.boss # <<>>
                 /\ p'.boss[1].hp = 3
                 /\ p'.boss[1].phase = 1
                 /\ p'.boss[1].invulnerableTimer = 60
          /\ (p.boss[1].hp = 3 /\ p.boss[1].phase = 1)
              => /\ p'.boss # <<>>
                 /\ p'.boss[1].phase = 2
                 /\ p'.boss[1].hp = 3]_vars

\* the tick of the hit has just ended
C6_Witness ==
    /\ obs.ran /\ obs.bossHits = 1 /\ p.boss # <<>>
    /\ p.boss[1].hp = 3 /\ p.boss[1].phase = 1 /\ p.boss[1].invulnerableTimer = 60

----------------------------------------------------------------------------
(* The goal, on levels 7 and 9; the host renders LEVEL_COMPLETE at any moment *)

\* bound: frames per attempt in the goal runs
WinTicks == 4

WinLevels == {7, 9}

WinKeys == {"KeyE", "KeyA"}

InitWin == \E lvl \in WinLevels : InitOn(lvl)

NextWin ==
    \/ Tick(WinTicks)
    \/ \E code \in WinKeys : handleKeyDown(code)
    \/ \E code \in WinKeys : handleKeyUp(code)
    \/ Rerender

SpecWin == InitWin /\ [][NextWin]_vars

\* C7: on a level without a boss, a tick that emits the level-complete signal
\* ends with the Guide overlapping the goal grown by 30 on every side, the
\* Companion overlapping it too, and the characters linked.
C7_WinNeedsAllThree ==
    (/\ obs.ran
     /\ \E i \in 1..Len(obs.sig) : obs.sig[i].kind = "complete"
     /\ Levels[view.levelIdx].boss = <<>>)
    => \E g \in 1..Len(p.platforms) :
          /\ p.platforms[g].type = "goal"
          /\ p.isTethered
          /\ \A e \in {p.guide, p.companion} :
                /\ e.pos.x < p.platforms[g].x + p.platforms[g].width + PX(30)
                /\ e.pos.x + e.width > p.platforms[g].x - PX(30)
                /\ e.pos.y < p.platforms[g].y + p.platforms[g].height + PX(30)
                /\ e.pos.y + e.height > p.platforms[g].y - PX(30)

\* a tick has just emitted the level-complete signal on a level without a boss
C7_Witness ==
    /\ obs.ran
    /\ Levels[view.levelIdx].boss = <<>>
    /\ obs.sig = <<SigComplete(0)>>
    /\ gameState = "LEVEL_COMPLETE"

----------------------------------------------------------------------------
(* Damage, on level 8: one health point, a monster standing on the Guide; the *)
(* host's reset timer and its renders come at any moment                      *)

\* bound: frames per attempt in the damage runs
DamageTicks == 62

InitDamage == InitOn(8)

NextDamage ==
    \/ Tick(DamageTicks)
    \/ Rerender
    \/ TimerFire

SpecDamage == InitDamage /\ [][NextDamage]_vars

\* C1: the Guide's and the Companion's hp are never negative; hp goes down only
\* in a tick, by exactly 1, through a takeDamage call that found the
\* invulnerability counter at 0 or below.
C1_HpNeverNegative ==
    [][/\ p'.guide.hp >= 0
       /\ p'.companion.hp >= 0
       /\ p'.companion.hp >= p.companion.hp
       /\ p'.guide.hp < p.guide.hp =>
             /\ obs'.ran
             /\ p'.guide.hp = p.guide.hp - 1
             /\ \E i \in 1..Len(obs'.dmg) :
                   obs'.dmg[i].timer <= 0 /\ obs'.dmg[i].hpAfter = obs'.dmg[i].hpBefore - 1]_vars

\* C13: a render that runs the Init Level effect leaves the whole context a
\* tick reads as the level descriptor alone determines it, that is as it is
\* after the first mount on that level: the characters (grounded flag
\* included), the level objects, bridges, projectiles, camera, last draw point
\* and tether state, the toggle cooldown clear, and, when play resumes, the ink
\* budget at the level's limit.
C13_InitFromDescriptor ==
    [][(view' # view /\ (view.gameState # gameState \/ view.levelIdx # levelIdx)) =>
          /\ p' = InitLevel(MountPhysics, Levels[levelIdx'])
          /\ ~toggleCooldown'
          /\ gameState' = "PLAYING" => inkLeft' = Levels[levelIdx'].inkLimit]_vars

----------------------------------------------------------------------------
(* Hazards, on levels 10, 11 and 12 *)

\* bound: frames per attempt in the hazard runs
HazardTicks == 3

HazardLevels == {10, 11, 12}

HazardKeys == {"KeyD"}

InitHazard == \E lvl \in HazardLevels : InitOn(lvl)

NextHazard ==
    \/ Tick(HazardTicks)
    \/ \E code \in HazardKeys : handleKeyDown(code)
    \/ \E code \in HazardKeys : handleKeyUp(code)
    \/ Rerender
    \/ TimerFire

SpecHazard == InitHazard /\ [][NextHazard]_vars

\* C11: a tick in which the Guide or the Companion, where updateEntityPhysics
\* has put it, lies fully inside a platform of kind hazard emits the game-over
\* signal, whatever the level's health system, the character's invulnerability
\* counter and the hazard's place in the platform list.
C11_HazardInstantLoss ==
    (/\ obs.ran
     /\ \E at \in {obs.gAt, obs.cAt} : \E k \in 1..Len(p.platforms) :
           /\ p.platforms[k].type = "hazard"
           /\ at.x >= p.platforms[k].x
           /\ at.x + PX(30) <= p.platforms[k].x + p.platforms[k].width
           /\ at.y >= p.platforms[k].y
           /\ at.y + PX(30) <= p.platforms[k].y + p.platforms[k].height)
    => \E i \in 1..Len(obs.sig) : obs.sig[i].kind = "gameOver"

\* C14: an attempt's outcome reaches the host once: a frame adds at most one
\* reset timer, adds it only while the host still shows PLAYING, and a host
\* that has left PLAYING is changed by no further frame.
C14_OutcomeOnce ==
    [][obs'.ran =>
         /\ Len(timers') <= Len(timers) + 1
         /\ Len(timers') > Len(timers) => gameState = "PLAYING"
         /\ gameState # "PLAYING" => gameState' = gameState]_vars

----------------------------------------------------------------------------
(* Defeating the boss, on level 13: the goal is within reach all along *)

\* bound: frames per attempt in the boss-defeat runs
SlayTicks == 4

SlayKeys == {"KeyE", "KeyA"}

InitSlay == InitOn(13)

NextSlay ==
    \/ Tick(SlayTicks)
    \/ \E code \in SlayKeys : handleKeyDown(code)
    \/ \E code \in SlayKeys : handleKeyUp(code)
    \/ Rerender

SpecSlay == InitSlay /\ [][NextSlay]_vars

\* C15: on a level with a boss a frame emits level-complete exactly when the
\* boss it starts with has hp <= 0, it emits it once and leaves no boss;
\* whether the characters are tethered or touch the goal plays no part.
C15_BossDeathOnly ==
    [][(obs'.ran /\ Levels[view.levelIdx].boss # <<>>) =>
         /\ (\E i \in 1..Len(obs'.sig) : obs'.sig[i].kind = "complete")
               <=> (p.boss # <<>> /\ p.boss[1].hp <= 0)
         /\ \A i, j \in 1..Len(obs'.sig) :
               (obs'.sig[i].kind = "complete" /\ obs'.sig[j].kind = "complete") => i = j
         /\ (\E i \in 1..Len(obs'.sig) : obs'.sig[i].kind = "complete")
               => (p'.boss = <<>> /\ obs'.bossDied)]_vars

\* the boss dies in a frame in which the tethered characters touch the goal
C15_Witness ==
    /\ obs.ran
    /\ obs.bossDied
    /\ Levels[levelIdx].boss # <<>>
    /\ p.boss = <<>>
    /\ \E i \in 1..Len(obs.sig) : obs.sig[i].kind = "complete"
    /\ p.isTethered
    /\ isTouchingGoal(p.guide, p.platforms[FindGoal(p.platforms)])
    /\ isTouchingGoal(p.companion, p.platforms[FindGoal(p.platforms)])

----------------------------------------------------------------------------
(* The damage path, on levels 8, 14, 15 and 21: a monster is on the Guide *)

\* bound: frames per attempt in the damage-path runs
HurtTicks == 3

HurtLevels == {8, 14, 15, 21, 22}

HurtKeys == {"KeyA", "Space"}

InitHurt == \E lvl \in HurtLevels : InitOn(lvl)

NextHurt ==
    \/ Tick(HurtTicks)
    \/ \E code \in HurtKeys : handleKeyDown(code)
    \/ \E code \in HurtKeys : handleKeyUp(code)
    \/ Rerender
    \/ TimerFire

SpecHurt == InitHurt /\ [][NextHurt]_vars

\* C16: a takeDamage call that finds the Guide's invulnerability counter at 0
\* or below, on a level with a boss or a custom health pool, takes 1 hp, sets
\* the counter to 60, reports the new hp to the host and signals game-over
\* exactly when the new hp is 0 or below; on any other level it signals
\* game-over at once and leaves the hp as it was.
C16_DamagePath ==
    \A i \in 1..Len(obs.dmg) :
        obs.dmg[i].timer <= 0 =>
            IF Levels[view.levelIdx].boss # <<>> \/ Levels[view.levelIdx].playerMaxHp # 0
            THEN /\ obs.dmg[i].hpAfter = obs.dmg[i].hpBefore - 1
                 /\ obs.dmg[i].timerAfter = 60
                 /\ Len(obs.dmg[i].sig) >= 1
                 /\ obs.dmg[i].sig[1] = SigSetHp(obs.dmg[i].hpAfter)
                 /\ (\E k \in 1..Len(obs.dmg[i].sig) : obs.dmg[i].sig[k] = SigGameOver)
                       <=> obs.dmg[i].hpAfter <= 0
            ELSE /\ obs.dmg[i].hpAfter = obs.dmg[i].hpBefore
                 /\ obs.dmg[i].sig = <<SigGameOver>>

\* the monster takes one of the Guide's two hp and the game goes on
C16_Witness ==
    /\ obs.ran
    /\ Levels[levelIdx].playerMaxHp = 2
    /\ Len(obs.dmg) = 1
    /\ obs.dmg[1].timer <= 0
    /\ obs.dmg[1].hpBefore = 2
    /\ obs.dmg[1].hpAfter = 1
    /\ obs.dmg[1].sig = <<SigSetHp(1)>>
    /\ obs.dmg[1].timerAfter = 60
    /\ p.guide.hp = 1
    /\ playerHp = 1
    /\ gameState = "PLAYING"

----------------------------------------------------------------------------
(* Bombs against the boss, on level 16; nothing in these frames changes a   *)
(* prop of the canvas, so the host never renders again                      *)

\* bound: frames per attempt in the bomb runs
BombTicks == 4

BombKeys == {"KeyA", "Space"}

InitBomb == InitOn(16)

NextBomb ==
    \/ Tick(BombTicks)
    \/ \E code \in BombKeys : handleKeyDown(code)
    \/ \E code \in BombKeys : handleKeyUp(code)

SpecBomb == InitBomb /\ [][NextBomb]_vars

\* C17: while there is a boss its hp goes down only in a frame whose bomb loop
\* found a bomb within boss.width/2 + crate.width/2 of its centre and the
\* boss's invulnerability counter at 0 or below; it then goes down by exactly
\* 1 and the counter is set to 60.  The loop removes every such bomb, whatever
\* the counter.
C17_BombContact ==
    [][(p.boss # <<>> /\ p'.boss # <<>>) =>
         /\ p'.boss[1].hp < p.boss[1].hp =>
               /\ obs'.ran /\ obs'.bossStep
               /\ obs'.bossNear >= 1
               /\ obs'.bossTimer <= 0
               /\ p'.boss[1].hp = p.boss[1].hp - 1
               /\ p'.boss[1].invulnerableTimer = 60
         /\ (obs'.bossStep /\ obs'.bossNear >= 1 /\ obs'.bossTimer <= 0) =>
               p'.boss[1].hp = p.boss[1].hp - 1
         /\ obs'.bossStep =>
               /\ obs'.bossLeft = 0
               /\ obs'.bossHits = obs'.bossNear]_vars

\* a bomb reaches the boss while it is invulnerable: it is removed, the hp stays
C17_Witness ==
    /\ obs.bossStep
    /\ obs.bossNear >= 1
    /\ obs.bossTimer > 0
    /\ obs.bossHits = obs.bossNear
    /\ p.boss[1].hp = 4
    /\ p.projectiles # <<>>
    /\ \E k \in 1..Len(p.crates) : p.crates[k].type = "wood"

\* C18: no frame changes the Companion's hp or invulnerability counter; a
\* projectile, old or just fired, that reaches the Companion (and not the
\* Guide) flies on; and a
\* frame in which no monster overlaps the Guide and no projectile is removed
\* calls no takeDamage and signals no loss, whatever overlaps the Companion.
C18_CompanionImmune ==
    [][obs'.ran =>
         /\ p'.companion.hp = p.companion.hp
         /\ p'.companion.invulnerableTimer = p.companion.invulnerableTimer
         /\ \A i \in 1..Len(p.projectiles \o obs'.fired) :
               (/\ MovedShot((p.projectiles \o obs'.fired)[i]).life > 0
                /\ checkHit(p.companion, MovedShot((p.projectiles \o obs'.fired)[i]))
                /\ ~checkHit(p.guide, MovedShot((p.projectiles \o obs'.fired)[i])))
               => \E k \in 1..Len(p'.projectiles) :
                     p'.projectiles[k] = MovedShot((p.projectiles \o obs'.fired)[i])
         /\ (/\ \A k \in 1..Len(p'.monsters) :
                   ~checkRectCollide(p.guide,
                        [x |-> p'.monsters[k].pos.x, y |-> p'.monsters[k].pos.y,
                         width |-> p'.monsters[k].width, height |-> p'.monsters[k].height])
              /\ Len(p'.projectiles) = Len(p.projectiles) + obs'.bossShots)
               => (obs'.dmg = <<>> /\ \A k \in 1..Len(obs'.sig) : obs'.sig[k] # SigGameOver)]_vars

\* a frame ends with a monster on the Companion and a projectile in it
C18_Witness ==
    /\ obs.ran
    /\ obs.dmg = <<>>
    /\ \E k \in 1..Len(p.monsters) :
          checkRectCollide(p.companion,
              [x |-> p.monsters[k].pos.x, y |-> p.monsters[k].pos.y,
               width |-> p.monsters[k].width, height |-> p.monsters[k].height])
    /\ \E k \in 1..Len(p.projectiles) :
          checkHit(p.companion, p.projectiles[k]) /\ p.projectiles[k].life < 299
    /\ p.companion.hp = 5
    /\ p.companion.invulnerableTimer = 0
    /\ gameState = "PLAYING"

----------------------------------------------------------------------------
(* Bridges and the outcome, on levels 7, 9 and 13: the player draws while the *)
(* characters are at the goal or the boss is dying                            *)

\* where the pointer goes in the bridge runs
BridgePoints == {<<20, 0>>, <<60, 0>>, <<120, 0>>}

InitBridge == \E lvl \in WinLevels \cup {13} : InitOn(lvl)

NextBridge ==
    \/ Tick(WinTicks)
    \/ handleKeyDown("KeyE")
    \/ handleKeyUp("KeyE")
    \/ handleMouseDown
    \/ handleMouseUp
    \/ \E pt \in BridgePoints : handleMouseMove(pt[1], pt[2])
    \/ Rerender

SpecBridge == InitBridge /\ [][NextBridge]_vars

\* C19: a render that runs the Init Level effect empties the bridge list; every
\* other step keeps the segments there are, in their order, and only a frame
\* adds one, a single segment at the end.
C19_BridgesAppendOnly ==
    [][IF view' # view /\ (view.gameState # gameState \/ view.levelIdx # levelIdx)
       THEN p'.bridges = <<>>
       ELSE /\ Len(p'.bridges) \in {Len(p.bridges), Len(p.bridges) + 1}
            /\ SubSeq(p'.bridges, 1, Len(p.bridges)) = p.bridges
            /\ Len(p'.bridges) > Len(p.bridges) => obs'.ran]_vars

\* a frame has added a second segment behind the first
C19_Witness ==
    /\ obs.ran
    /\ Len(p.bridges) = 2
    /\ p.bridges[1].p2 = p.bridges[2].p1
    /\ p.lastMousePos = <<p.bridges[2].p2>>

\* C20: bridgeCount is the length of the bridge list in every state, and a
\* level-complete signal carries the length the list has when it is sent:
\* the list the frame started with when the boss's death sends it (before the
\* frame draws), the list the frame ends with when the goal check sends it.
C20_BridgeCount ==
    /\ [](p.bridgeCount = Len(p.bridges))
    /\ [][obs'.ran =>
            \A k \in 1..Len(obs'.sig) :
                obs'.sig[k].kind = "complete" =>
                    obs'.sig[k].n = IF obs'.bossDied THEN Len(p.bridges) ELSE Len(p'.bridges)]_vars

\* the goal check reports a level finished with one segment drawn
C20_Witness ==
    /\ obs.ran
    /\ ~obs.bossDied
    /\ Len(p.bridges) = 1
    /\ p.bridgeCount = 1
    /\ obs.sig # <<>>
    /\ obs.sig[Len(obs.sig)] = SigComplete(1)
    /\ gameState = "LEVEL_COMPLETE"

----------------------------------------------------------------------------
(* The boss's volleys, on levels 17, 18, 27 and 28: the player stands still *)

\* bound: frames per attempt in the volley runs
VolleyTicks == 305

InitVolley == \E lvl \in {17, 18, 27, 28} : InitOn(lvl)

NextVolley ==
    \/ Tick(VolleyTicks)
    \/ Rerender
    \/ TimerFire

SpecVolley == InitVolley /\ [][NextVolley]_vars

\* C23: in phase 1 the boss enters attack with shotCount 0 and the timer at 0;
\* in attack every timer expiry fires exactly one projectile and counts it,
\* re-arming the timer to 60 after the first four and going to cooldown with
\* the timer at 180 after the fifth; no other frame fires, and shotCount
\* never exceeds 5.
C23_PhaseOneBurst ==
    [][(/\ obs'.ran /\ p.boss # <<>> /\ p'.boss # <<>>
        /\ p.boss[1].phase = 1 /\ p'.boss[1].phase = 1 /\ p.boss[1].hp > 3) =>
          /\ p'.boss[1].shotCount <= 5
          /\ IF p.boss[1].state = "cooldown"
             THEN /\ obs'.bossShots = 0
                  /\ IF p.boss[1].attackTimer - 1 <= 0
                     THEN /\ p'.boss[1].state = "attack"
                          /\ p'.boss[1].shotCount = 0
                          /\ p'.boss[1].attackTimer = 0
                     ELSE /\ p'.boss[1].state = "cooldown"
                          /\ p'.boss[1].attackTimer = p.boss[1].attackTimer - 1
             ELSE IF p.boss[1].attackTimer - 1 <= 0
                  THEN /\ obs'.bossShots = 1
                       /\ p'.boss[1].shotCount = p.boss[1].shotCount + 1
                       /\ IF p'.boss[1].shotCount >= 5
                          THEN p'.boss[1].state = "cooldown" /\ p'.boss[1].attackTimer = 180
                          ELSE p'.boss[1].state = "attack" /\ p'.boss[1].attackTimer = 60
                  ELSE /\ obs'.bossShots = 0
                       /\ p'.boss[1].state = "attack"
                       /\ p'.boss[1].shotCount = p.boss[1].shotCount
                       /\ p'.boss[1].attackTimer = p.boss[1].attackTimer - 1]_vars

\* the fifth shot of the first burst has just been fired, 240 frames after the first
C23_Witness ==
    /\ obs.ran /\ obs.bossShots = 1
    /\ p.time = 242
    /\ p.boss # <<>> /\ p.boss[1].phase = 1
    /\ p.boss[1].shotCount = 5
    /\ p.boss[1].state = "cooldown"
    /\ p.boss[1].attackTimer = 180

\* C24: in phase 2 a frame fires exactly when it finds the boss in attack with
\* the timer expiring; it then fires 8 projectiles or 5, and the boss ends the
\* frame in cooldown with the timer at 180, so one visit to attack fires once.
C24_PhaseTwoVolley ==
    [][(/\ obs'.ran /\ p.boss # <<>> /\ p'.boss # <<>>
        /\ p.boss[1].phase = 2 /\ p.boss[1].hp > 0) =>
          IF p.boss[1].state = "attack" /\ p.boss[1].attackTimer - 1 <= 0
          THEN /\ Len(obs'.fired) \in {5, 8}
               /\ Len(p'.projectiles) <= Len(p.projectiles) + Len(obs'.fired)
               /\ p'.boss[1].state = "cooldown"
               /\ p'.boss[1].attackTimer = 180
          ELSE /\ obs'.fired = <<>>
               /\ Len(p'.projectiles) <= Len(p.projectiles)]_vars

\* the second volley, a radial burst of 8, one cooldown after the first
C24_Witness ==
    /\ obs.ran /\ Len(obs.fired) = 8
    /\ p.time > 180
    /\ p.boss # <<>> /\ p.boss[1].phase = 2
    /\ p.boss[1].state = "cooldown"
    /\ p.boss[1].attackTimer = 180
    /\ Len(p.projectiles) >= 8

\* C25: a frame ages every projectile, old or just fired, by 1 and moves it;
\* it keeps, in their order, exactly those whose counter is still above 0 and
\* that do not reach the Guide, and calls takeDamage once for each one that
\* reaches the Guide, invulnerable or not.  A projectile starts at 300, so
\* none is left with a counter outside 1..299.
C25_ProjectileLife ==
    /\ [](\A k \in 1..Len(p.projectiles) :
            p.projectiles[k].life >= 1 /\ p.projectiles[k].life <= 299)
    /\ [][obs'.ran =>
            /\ p'.projectiles =
                  SelectSeq([i \in 1..Len(p.projectiles \o obs'.fired) |->
                                MovedShot((p.projectiles \o obs'.fired)[i])],
                            LAMBDA m : m.life > 0 /\ ~checkHit(p.guide, m))
            /\ Len(obs'.dmg) =
                  Cardinality({i \in 1..Len(p.projectiles \o obs'.fired) :
                                  /\ MovedShot((p.projectiles \o obs'.fired)[i]).life > 0
                                  /\ checkHit(p.guide, MovedShot((p.projectiles \o obs'.fired)[i]))})
            /\ \A i \in 1..Len(obs'.fired) : obs'.fired[i].life = 300]_vars

\* several projectiles reach the Guide in one frame: the first hurts it, the
\* others find it invulnerable, and all are gone
C25_Witness ==
    /\ obs.ran
    /\ Len(obs.dmg) >= 2
    /\ obs.dmg[1].timer <= 0
    /\ obs.dmg[2].timer > 0
    /\ obs.dmg[2].hpAfter = obs.dmg[2].hpBefore
    /\ \A k \in 1..Len(p.projectiles) : ~checkHit(p.guide, p.projectiles[k])

\* C27: a frame moves every monster by its velocity and negates the velocity
\* exactly when the new x is beyond patrolEnd or before patrolStart, so the
\* speed keeps its magnitude; it calls takeDamage once for every monster that
\* then overlaps the Guide, and a call that finds the Guide's invulnerability
\* counter above 0 changes no hp and signals nothing.
C27_MonsterPatrol ==
    [][obs'.ran =>
         /\ Len(p'.monsters) = Len(p.monsters)
         /\ \A k \in 1..Len(p.monsters) :
               /\ p'.monsters[k].pos.x = p.monsters[k].pos.x + p.monsters[k].vel.x
               /\ p'.monsters[k].pos.y = p.monsters[k].pos.y
               /\ p'.monsters[k].vel.x =
                     IF \/ p'.monsters[k].pos.x > p.monsters[k].patrolEnd
                        \/ p'.monsters[k].pos.x < p.monsters[k].patrolStart
                     THEN -p.monsters[k].vel.x ELSE p.monsters[k].vel.x
         /\ Len(obs'.dmg) =
               Cardinality({k \in 1..Len(p'.monsters) :
                   /\ p.guide.pos.x < p'.monsters[k].pos.x + p'.monsters[k].width
                   /\ p.guide.pos.x + p.guide.width > p'.monsters[k].pos.x
                   /\ p.guide.pos.y < p'.monsters[k].pos.y + p'.monsters[k].height
                   /\ p.guide.pos.y + p.guide.height > p'.monsters[k].pos.y})
         /\ \A i \in 1..Len(obs'.dmg) :
               obs'.dmg[i].timer > 0 =>
                   /\ obs'.dmg[i].hpAfter = obs'.dmg[i].hpBefore
                   /\ obs'.dmg[i].sig = <<>>]_vars

\* the pacing monster has turned round on the Guide, which is still invulnerable
\* from its first touch
C27_Witness ==
    /\ obs.ran
    /\ levelIdx = 21
    /\ p.monsters[1].vel.x = -30
    /\ p.monsters[1].pos.x > p.monsters[1].patrolEnd
    /\ Len(obs.dmg) = 1
    /\ obs.dmg[1].timer > 0
    /\ p.guide.hp = 2

----------------------------------------------------------------------------
(* Jumping, on level 3: the player presses and releases the jump key *)

\* bound: frames per attempt in the jump runs (a jump lasts some 40 frames)
JumpTicks == 46

JumpKeys == {"Space"}

InitJump == InitOn(3)

NextJump ==
    \/ Tick(JumpTicks)
    \/ \E code \in JumpKeys : handleKeyDown(code)
    \/ \E code \in JumpKeys : handleKeyUp(code)

SpecJump == InitJump /\ [][NextJump]_vars

\* C12: a tick that finds the Guide grounded and at rest with the jump key down
\* sets the Guide's vertical velocity to JUMP_FORCE (-11) in its input step and
\* ends with the Guide not grounded; and the Guide is grounded at the end of a
\* tick only if that tick put it, at vertical rest, on top of a platform, a
\* crate or a bridge.
C12_JumpImpulse ==
    [][obs'.ran =>
          /\ (p.guide.isGrounded /\ p.guide.vel.y = 0 /\ "Space" \in keys)
              => /\ obs'.gv0.y = PX(-11)
                 /\ ~p'.guide.isGrounded
                 /\ p'.guide.pos.y < p.guide.pos.y
          /\ p'.guide.isGrounded
              => /\ p'.guide.vel.y = 0
                 /\ \/ \E k \in 1..Len(p'.platforms) :
                          /\ p'.platforms[k].type \in {"ground", "goal", "gate"}
                          /\ p'.guide.pos.y + p'.guide.height = p'.platforms[k].y
                          /\ p'.guide.pos.x < p'.platforms[k].x + p'.platforms[k].width
                          /\ p'.guide.pos.x + p'.guide.width > p'.platforms[k].x
                    \/ \E k \in 1..Len(p'.crates) :
                          /\ p'.guide.pos.y + p'.guide.height = p'.crates[k].pos.y
                          /\ p'.guide.pos.x < p'.crates[k].pos.x + p'.crates[k].width
                          /\ p'.guide.pos.x + p'.guide.width > p'.crates[k].pos.x
                    \/ \E k \in 1..Len(p'.bridges) :
                          /\ p'.bridges[k].p1.x # p'.bridges[k].p2.x
                          /\ p'.guide.pos.y + p'.guide.height =
                                p'.bridges[k].p1.y
                                + TruncDiv((p'.bridges[k].p2.y - p'.bridges[k].p1.y)
                                           * (p'.guide.pos.x + p'.guide.width \div 2
                                              - p'.bridges[k].p1.x),
                                           p'.bridges[k].p2.x - p'.bridges[k].p1.x)]_vars

\* the tick of a jump has just ended: impulse given, Guide in the air
C12_Witness ==
    /\ obs.ran /\ "Space" \in keys
    /\ obs.gv0.y = JUMP_FORCE
    /\ ~p.guide.isGrounded
    /\ p.guide.vel.y = JUMP_FORCE + GRAVITY

----------------------------------------------------------------------------
(* Forced scrolling *)

\* C28: on an auto-scroll level every tick adds exactly autoScrollSpeed to cameraX,
\* whatever the characters do, so that cameraX is the number of ticks since the level
\* was initialised times autoScrollSpeed; and every tick that ends with the Guide or
\* the Companion left of cameraX - 50 sends the game-over signal, whether the level
\* has a health pool or not and whether the Guide is invulnerable or not.
C28_AutoScroll ==
    /\ [](Levels[view.levelIdx].autoScrollSpeed # 0 =>
              p.cameraX = p.time * Levels[view.levelIdx].autoScrollSpeed)
    /\ [][(obs'.ran /\ Levels[view.levelIdx].autoScrollSpeed # 0) =>
              /\ p'.cameraX = p.cameraX + Levels[view.levelIdx].autoScrollSpeed
              /\ (\/ p'.guide.pos.x < p'.cameraX - PX(50)
                  \/ p'.companion.pos.x < p'.cameraX - PX(50))
                 => \E k \in 1..Len(obs'.sig) : obs'.sig[k] = SigGameOver]_vars

\* the third tick of level 22: the Companion is left behind while the Guide, hit by
\* the monster on the first tick, is still invulnerable and has health left
C28_Witness ==
    /\ obs.ran
    /\ view.levelIdx = 22
    /\ p.cameraX = PX(90)
    /\ p.companion.pos.x < p.cameraX - PX(50)
    /\ p.guide.pos.x >= p.cameraX - PX(50)
    /\ p.guide.invulnerableTimer > 0
    /\ p.guide.hp = 2
    /\ obs.sig = <<SigGameOver>>
    /\ timers # <<>>
----------------------------------------------------------------------------
(* Pushing crates *)

\* how far resolveCratePush tries to move the crate: 0 when it does not push
PushAmount(pusher, crate) ==
    LET dx == (pusher.pos.x + pusher.width \div 2) - (crate.pos.x + crate.width \div 2)
        dy == (pusher.pos.y + pusher.height \div 2) - (crate.pos.y + crate.height \div 2)
        overlapX == pusher.width \div 2 + crate.width \div 2 - Abs(dx)
        overlapY == pusher.height \div 2 + crate.height \div 2 - Abs(dy)
    IN  IF overlapX > 0 /\ overlapY > 0 /\ overlapX < overlapY /\ overlapY > PX(5)
        THEN IF dx > 0 THEN -overlapX ELSE overlapX
        ELSE 0

\* the crate where the push would put it
Pushed(pusher, crate) == [crate EXCEPT !.pos.x = crate.pos.x + PushAmount(pusher, crate)]

\* a ground, goal or closed-gate platform
StopsCrates(plat) == plat.type \in {"ground", "goal"} \/ (plat.type = "gate" /\ ~plat.isOpen)

\* C29: when a character's horizontal push would move a crate into a ground, goal or
\* closed-gate platform, the push step leaves the crate where it was, moves the
\* pusher back by the amount of the push and leaves both horizontal velocities 0;
\* when the only platforms the pushed crate would meet are open gates or hazards,
\* the crate is moved.
C29_PushRollback ==
    \A k \in 1..Len(obs.pushes) :
        LET r == obs.pushes[k]
            amount == PushAmount(r.pusher, r.crate)
            met == {j \in 1..Len(p.platforms) :
                       checkRectCollide(Pushed(r.pusher, r.crate), p.platforms[j])}
        IN  amount # 0 =>
                /\ (\E j \in met : StopsCrates(p.platforms[j])) =>
                       /\ r.out.crate.pos = r.crate.pos
                       /\ r.out.pusher.pos.x = r.pusher.pos.x - amount
                       /\ r.out.pusher.pos.y = r.pusher.pos.y
                       /\ r.out.crate.vel.x = 0
                       /\ r.out.pusher.vel.x = 0
                /\ (\A j \in met : ~StopsCrates(p.platforms[j])) =>
                       r.out.crate.pos.x = r.crate.pos.x + amount

\* level 24 with the Guide walking right: the closed gate stops the Guide's crate
\* while the Companion's crate is pushed into the hazard
C29_Witness ==
    /\ obs.ran
    /\ view.levelIdx = 24
    /\ Len(obs.pushes) = 4
    /\ PushAmount(obs.pushes[1].pusher, obs.pushes[1].crate) = PX(5) + GUIDE_SPEED
    /\ obs.pushes[1].out.crate.pos.x = PX(125)
    /\ obs.pushes[1].out.pusher.pos.x = PX(95)
    /\ obs.pushes[1].out.pusher.vel.x = 0
    /\ PushAmount(obs.pushes[4].pusher, obs.pushes[4].crate) = -PX(5)
    /\ obs.pushes[4].out.crate.pos.x = 0
----------------------------------------------------------------------------
(* Frames while the host is not playing *)

\* C30: while the host's GameState is not PLAYING a call of tick() leaves the
\* simulation context as it was (time, positions, velocities, timers, boss,
\* spawners, projectiles, bridges, tether state), leaves the ink as it was and
\* sends no signal to the host.
C30_IdleTick ==
    [][(gameState # "PLAYING" /\ obs'.ran) =>
          /\ p' = p
          /\ toggleCooldown' = toggleCooldown
          /\ inkLeft' = inkLeft
          /\ obs'.sig = <<>>]_vars
----------------------------------------------------------------------------
(* Reproducibility *)

\* the part of the context two runs are compared on
SimState(q) ==
    [time |-> q.time, boss |-> q.boss, spawners |-> q.spawners,
     projectiles |-> q.projectiles, guideHp |-> q.guide.hp, companionHp |-> q.companion.hp]

\* C31: the simulation is reproducible: from the same context and with the same
\* input, a tick leaves the same time counter, boss, spawner cooldowns, projectile
\* list and character hp whatever Math.random() returns, and the time counter
\* has grown by one tick's increment.
C31_Reproducible ==
    view.gameState = "PLAYING" =>
        \A r1, r2 \in RandomFor(p) :
            /\ TickBody(p, toggleCooldown, keys, mouse, view, r1).p.time = p.time + 1
            /\ SimState(TickBody(p, toggleCooldown, keys, mouse, view, r1).p)
                   = SimState(TickBody(p, toggleCooldown, keys, mouse, view, r2).p)
----------------------------------------------------------------------------
(* One outcome per tick *)

\* C33: no tick sends both the level-complete signal and the game-over signal:
\* a tick in which a loss condition has fired does not also report a win.
C33_OneOutcome ==
    ~(/\ \E i \in 1..Len(obs.sig) : obs.sig[i].kind = "gameOver"
      /\ \E j \in 1..Len(obs.sig) : obs.sig[j].kind = "complete")
----------------------------------------------------------------------------
(* The boss's hp *)

\* C35: while the boss exists its hp is never negative; a tick lowers it by at
\* most 1, however many bombs touch the boss; and two decrements are at least
\* 60 ticks apart: a decrement starts a count of 60 that goes down by 1 per
\* tick, and the next decrement comes in a tick that finds the count at 1 or 0.
C35_BossHp ==
    /\ [](p.boss # <<>> => p.boss[1].hp >= 0)
    /\ [][(obs'.ran /\ p.boss # <<>> /\ p'.boss # <<>>) =>
              /\ p'.boss[1].hp \in {p.boss[1].hp, p.boss[1].hp - 1}
              /\ p'.boss[1].hp < p.boss[1].hp =>
                     /\ p.boss[1].invulnerableTimer <= 1
                     /\ p'.boss[1].invulnerableTimer = 60
              /\ p'.boss[1].hp = p.boss[1].hp =>
                     p'.boss[1].invulnerableTimer = Max(p.boss[1].invulnerableTimer - 1, 0)]_vars

\* level 27, tick 61: the dispenser's bomb brings the boss to hp 0, 60 ticks
\* after the two bombs of tick 1 cost it 1 hp
C35_Witness ==
    /\ obs.ran
    /\ view.levelIdx = 27
    /\ p.time = 61
    /\ obs.bossHits = 1
    /\ p.boss # <<>>
    /\ p.boss[1].hp = 0
    /\ p.boss[1].invulnerableTimer = 60
\* C36: a boss that starts with more than 3 hp is never cleared in phase 1: the
\* tick in which the boss-death check removes it finds it in phase 2, which it
\* entered in an earlier tick.
C36_DiesInPhaseTwo ==
    [][(/\ obs'.ran /\ obs'.bossDied
        /\ Levels[view.levelIdx].boss # <<>>
        /\ Levels[view.levelIdx].boss[1].hp > 3)
       => /\ p.boss # <<>>
          /\ p.boss[1].phase = 2
          /\ p'.boss = <<>>]_vars

\* level 28, tick 182: the boss, hit on ticks 1, 61, 121 and 181, is removed
C36_Witness ==
    /\ obs.ran
    /\ obs.bossDied
    /\ view.levelIdx = 28
    /\ p.time = 182
    /\ p.boss = <<>>
    /\ gameState = "LEVEL_COMPLETE"
----------------------------------------------------------------------------
(* Strokes *)

StrokeTicks == 2

\* pointer positions: inside and outside the no-ink zone of level 31
StrokePoints == {<<20, 0>>, <<60, 0>>}

\* level 30 is won on its first tick; the host's next level is level 31
InitStroke == InitOn(30)

\* the pointer, the tick, the render and the next-level button, which the
\* keyboard can activate while the pointer is held down
NextStroke ==
    \/ Tick(StrokeTicks)
    \/ handleMouseDown
    \/ handleMouseUp
    \/ \E pt \in StrokePoints : handleMouseMove(pt[1], pt[2])
    \/ Rerender
    \/ handleNextLevel

SpecStroke == InitStroke /\ [][NextStroke]_vars

\* C37: both end points of every committed segment lie outside every no-ink
\* zone; and while a stroke lasts (the last draw point is never cleared) the
\* last draw point moves only by a commit, whose segment starts at the old
\* point and ends at the new one, so that each segment of the stroke starts
\* where the one before it ended.
C37_StrokeEndpoints ==
    /\ [](\A k \in 1..Len(p.bridges) :
              /\ ~InNoInkZone(p.noInkZones, p.bridges[k].p1.x, p.bridges[k].p1.y)
              /\ ~InNoInkZone(p.noInkZones, p.bridges[k].p2.x, p.bridges[k].p2.y))
    /\ [][/\ (p.lastMousePos # <<>> /\ p'.lastMousePos # <<>>
              /\ p'.lastMousePos # p.lastMousePos) =>
                /\ p'.bridges = Append(p.bridges, [p1 |-> p.lastMousePos[1],
                                                  p2 |-> p'.lastMousePos[1]])
          /\ (obs'.ran /\ Len(p'.bridges) > Len(p.bridges)) =>
                /\ p.lastMousePos # <<>>
                /\ p'.bridges = Append(p.bridges, [p1 |-> p.lastMousePos[1],
                                                  p2 |-> p'.lastMousePos[1]])]_vars

----------------------------------------------------------------------------
(* A refused reconnect *)

\* C38: a reconnect attempt that is refused because the characters are 100 or
\* more apart uses up the key press: the tick of the attempt leaves the tether
\* unlinked and the toggle flag set, and every later tick that finds the key
\* down and the flag set leaves the tether unlinked and the flag set, however
\* close the characters have come; only a tick that finds the key up clears
\* the flag.
C38_RefusedReconnect ==
    [][(obs'.ran /\ ~p.isTethered /\ "KeyE" \in keys) =>
          /\ (~toggleCooldown
                 /\ GuideCompanionDist2(p) >= RECONNECT_DIST * RECONNECT_DIST)
              => (~p'.isTethered /\ toggleCooldown')
          /\ toggleCooldown => (~p'.isTethered /\ toggleCooldown')]_vars

\* level 29, tick 3: the tether was cut on tick 1 and the key was up on tick 2;
\* tick 3 found the key down again and the characters 102 apart and refused;
\* the Guide's step of the same tick has brought them to 99.8 apart, the key is
\* still down
C38_Witness ==
    /\ obs.ran
    /\ view.levelIdx = 29
    /\ p.time = 3
    /\ obs.held /\ obs.edge /\ ~obs.was
    /\ obs.dist2 = PX(102) * PX(102)
    /\ GuideCompanionDist2(p) < RECONNECT_DIST * RECONNECT_DIST
    /\ "KeyE" \in keys
    /\ ~p.isTethered
    /\ toggleCooldown
----------------------------------------------------------------------------
(* Patrols *)

\* the monster's descriptor puts it inside its patrol interval with a speed no
\* greater than the interval's length
StartsInPatrol(m) ==
    /\ m.patrolStart <= m.pos.x /\ m.pos.x <= m.patrolEnd
    /\ Abs(m.vel.x) <= m.patrolEnd - m.patrolStart

\* C39: a monster that starts inside its patrol interval with a speed no greater
\* than the interval's length is never further than its speed outside the
\* interval, and a tick that finds it outside the interval leaves it inside: it
\* is never outside on two consecutive ticks.
C39_PatrolBounds ==
    /\ [](\A k \in 1..Len(p.monsters) :
              StartsInPatrol(Levels[view.levelIdx].monsters[k]) =>
                  /\ p.monsters[k].patrolStart - Abs(p.monsters[k].vel.x) <= p.monsters[k].pos.x
                  /\ p.monsters[k].pos.x <= p.monsters[k].patrolEnd + Abs(p.monsters[k].vel.x))
    /\ [][obs'.ran =>
              \A k \in 1..Len(p.monsters) :
                  (/\ StartsInPatrol(Levels[view.levelIdx].monsters[k])
                   /\ (\/ p.monsters[k].pos.x > p.monsters[k].patrolEnd
                       \/ p.monsters[k].pos.x < p.monsters[k].patrolStart))
                  => /\ p'.monsters[k].patrolStart <= p'.monsters[k].pos.x
                     /\ p'.monsters[k].pos.x <= p'.monsters[k].patrolEnd]_vars

\* level 21, tick 3: the first monster, which tick 2 left at 206 beyond its
\* patrolEnd of 205, is back at 203 and moving left
C39_Witness ==
    /\ obs.ran
    /\ view.levelIdx = 21
    /\ p.time = 3
    /\ p.monsters[1].pos.x = PX(203)
    /\ p.monsters[1].vel.x = -30
    /\ p.monsters[1].patrolEnd = PX(205)
----------------------------------------------------------------------------
(* The host's buttons and the narrative, from levels 26, 30 and 32 *)

\* bound: frames per attempt in the host runs
HostTicks == 2

\* bound: generateNarrative calls in flight
MaxPending == 2

InitHost == \E lvl \in {26, 30, 32} : InitOn(lvl)

\* one animation frame, as long as the calls in flight stay within the bound
HostTick == Tick(HostTicks) /\ Len(pending') <= MaxPending

NextHost ==
    \/ HostTick
    \/ Rerender
    \/ TimerFire
    \/ handleNextLevel
    \/ onReset
    \/ NarrativeResolve

SpecHost == InitHost /\ [][NextHost]_vars
\* C40: the narrative shown for a completed level is the one generated for that
\* level: while the victory modal is up, the stored narrative is empty or is the
\* result of the generateNarrative call made for the level just completed; a
\* result that arrives after handleNextLevel is not stored.
C40_NarrativeOfLevel ==
    (gameState = "LEVEL_COMPLETE" /\ narrative # 0) => narrative = levelIdx
\* the timeout of handleReset runs once set, and React renders once a state has
\* changed
SpecHostFair == SpecHost /\ WF_vars(TimerFire) /\ WF_vars(Rerender)

\* C32: after a game-over signal the host is eventually PLAYING again with the
\* ink budget at the level's inkLimit and the simulation context as the Init
\* Level effect leaves it.
C32_ResetRestores ==
    (\E i \in 1..Len(obs.sig) : obs.sig[i].kind = "gameOver")
        ~> (/\ gameState = "PLAYING"
            /\ inkLeft = Levels[levelIdx].inkLimit
            /\ p = InitLevel(p, Levels[levelIdx]))
\* C34: once the host is in LEVEL_COMPLETE it leaves that state only by a press
\* of the modal's button (next level) or of the reset button: no timer started
\* by a game-over signal takes it back to PLAYING.
C34_CompleteStays ==
    [][(gameState = "LEVEL_COMPLETE" /\ gameState' # "LEVEL_COMPLETE")
          => obs'.asked \in {"next", "reset"}]_vars
====
